---- MODULE Spec2Model ----
(***************************************************************************)
(* Model of the Moonlapse session server (src/server/main.cpp) on top of   *)
(* the wire protocol (src/shared/packets.hpp) and the TCP transport        *)
(* (src/shared/network.hpp).                                               *)
(*                                                                         *)
(* Threads: thread 0 is the thread of GameServer::run (accept loop and     *)
(* registerPlayer); thread c >= 1 is the std::jthread that runs            *)
(* handleClient for the c-th accepted session.  A block guarded by         *)
(* playersMutex holds no I/O and is one atomic step; every socket          *)
(* operation is a step of its own and happens outside playersMutex.        *)
(*                                                                         *)
(* A std::uint32_t u (PlayerId, nextId) is stored as the integer of        *)
(* [-2^31, 2^31) congruent to u modulo 2^32 (its two's-complement bit      *)
(* pattern): 1 is 1, 2^31 is MinInt32 and 2^32 - 1 is -1.  TLC's integers  *)
(* are 32 bits wide, so this keeps the counter at its real width.          *)
(***************************************************************************)
EXTENDS Integers, Sequences, FiniteSets, TLC

\* ----------------------------------------------------------------- bounds
\* Connections accepted in one run.
MaxConns == 2
\* Packets decoded by all receive loops together in one run.
MaxPackets == 1
\* Entries of a snapshot and chars of a chat text that are encoded.
MaxEntries == 2
MaxText == 2
MaxBuffer == 3
MaxInterrupts == 2

\* -------------------------------------------------------------- constants
gridWidth == 40
gridHeight == 20
MaxInt32 == 2147483647
MinInt32 == -MaxInt32 - 1

Directions == {"Up", "Down", "Left", "Right"}

AcceptThread == 0
Threads == 0..MaxConns
NoThread == -1
NoSession == 0

VARIABLES
    nextId,      \* GameServer::nextId
    players,     \* GameServer::players: id -> [position, session]
    sessions,    \* Session::playerId of the k-th accepted session
    socketOpen,  \* TcpSocket::isOpen() of the k-th session's socket
    sendMutex,   \* holder of the k-th session's sendMutex, or NoThread
    wire,        \* messages fully written to the k-th session's socket
    seenGone,    \* history: sessions s was shown as gone, after they were
    pc,          \* position of each thread
    caller,      \* function a thread's broadcastState returns to
    snapshot,    \* local `snapshot`/`encoded` of gatherSnapshot's caller
    recipients,  \* local `recipients` of broadcastState, not yet handled
    removed,     \* local `removed` of removePlayer
    msg,         \* packet decoded by a receive loop, being dispatched
    previous,    \* local `previous` of handleMovement
    packets,     \* packets decoded so far
    spoofLog,    \* "ignoring spoofed movement" lines printed so far
    handled,     \* history: how the packet each loop dispatched last ended
    call         \* a function of the codebase called on its own: arguments
                 \* and, once it has returned, results

vars == <<nextId, players, sessions, socketOpen, sendMutex, wire, seenGone, pc, caller,
          snapshot, recipients, removed, msg, previous, packets, spoofLog, handled, call>>

\* The variables of the running server.
serverVars == <<nextId, players, sessions, socketOpen, sendMutex, wire, seenGone, pc,
                caller, snapshot, recipients, removed, msg, previous, packets, spoofLog,
                handled>>

\* ------------------------------------------------------------ pure helpers
Range(s) == {s[i] : i \in DOMAIN s}

\* Every order in which a set can be iterated.
Orders(S) ==
    {s \in [1..Cardinality(S) -> S] : \A i, j \in DOMAIN s : i # j => s[i] # s[j]}

\* C++ integer division and remainder truncate towards zero.
TruncDiv(a, b) == IF a >= 0 \/ a % b = 0 THEN a \div b ELSE (a \div b) + 1
TruncRem(a, b) == IF a >= 0 \/ a % b = 0 THEN a % b ELSE (a % b) - b

\* u + 1 and u - 1 of a std::uint32_t, on bit patterns.
Inc32(u) == IF u = MaxInt32 THEN MinInt32 ELSE u + 1
Dec32(u) == IF u = MinInt32 THEN MaxInt32 ELSE u - 1

\* a < b as std::uint32_t, on bit patterns.
ULess(a, b) == IF (a >= 0) = (b >= 0) THEN a < b ELSE a >= 0

NoPacket == [type |-> "None"]
MovementPacket(p, d) == [type |-> "Movement", player |-> p, direction |-> d]
StateSnapshotPacket(f, ps) == [type |-> "StateSnapshot", focusPlayer |-> f, players |-> ps]
ChatPacket(p, m) == [type |-> "Chat", player |-> p, message |-> m]
NoSnapshot == StateSnapshotPacket(0, <<>>)
Position(x, y) == [x |-> x, y |-> y]

\* Mutant: only the lower edge is clamped.
clampBelowOnly(value, ceiling) == IF value < 0 THEN 0 ELSE value

clampCoordinate(value, ceiling) ==
    IF value < 0 THEN 0
    ELSE IF value >= ceiling THEN ceiling - 1
    ELSE value

applyMovement(position, direction) ==
    LET moved ==
            CASE direction = "Up" -> Position(position.x, position.y - 1)
              [] direction = "Down" -> Position(position.x, position.y + 1)
              [] direction = "Left" -> Position(position.x - 1, position.y)
              [] direction = "Right" -> Position(position.x + 1, position.y)
    IN  Position(clampCoordinate(moved.x, gridWidth),
                 clampCoordinate(moved.y, gridHeight))

spawnPosition(playerIdentifier) ==
    LET positionIndex == Dec32(playerIdentifier)
    IN  Position(TruncRem(positionIndex, gridWidth),
                 TruncRem(TruncDiv(positionIndex, gridWidth), gridHeight))

\* Mutant: the counter is read but never advanced.
FetchAddStuck(counter) == counter

\* nextId.fetch_add(1): the value stored back.
FetchAddStored(counter) == Inc32(counter)

\* players.emplace(id, entry): an existing key keeps its entry.
Emplace(map, id, entry) ==
    IF id \in DOMAIN map THEN map ELSE (id :> entry) @@ map

\* Mutant: removing one player clears the registry.
EraseAll(map, id) == <<>>

\* players.erase(entry)
Erase(map, id) == [k \in DOMAIN map \ {id} |-> map[k]]

\* Mutant: the positions are those the players spawned at.
gatherSnapshotStale(focus) ==
    StateSnapshotPacket(focus, [id \in DOMAIN players |-> spawnPosition(id)])

\* Mutant: every snapshot is focused on player 1.
gatherSnapshotFocusOne(focus) ==
    StateSnapshotPacket(1, [id \in DOMAIN players |-> players[id].position])

gatherSnapshot(focus) ==
    StateSnapshotPacket(focus, [id \in DOMAIN players |-> players[id].position])

snapshotSessions == {players[id].session : id \in DOMAIN players}

\* Mutant: the player field of a Movement is never compared.
NeverSpoofed(movement, session) == FALSE

\* handleMovement's first test.
IsSpoofed(movement, session) == movement.player # sessions[session]

\* Mutant: `auto position`, a copy: the entry keeps its old position.
StoreOnCopy(map, id, position) == map

\* handleMovement's `auto &position = entry->second.position`: applyMovement
\* writes through the reference into the entry.
StorePosition(map, id, position) == [map EXCEPT ![id].position = position]

\* handleMovement's `updated`.
Updated(before, after) == before.x # after.x \/ before.y # after.y

\* Mutant: players[id], which inserts a default entry for a missing key.
EntryDefaulted(map, id, session) ==
    (id :> [position |-> Position(0, 0), session |-> session]) @@ map

\* handleMovement when players.find(id) == players.end(): return.
EntryMissing(map, id, session) == map

\* Mutant: a snapshot from a client ends the receive loop.
AfterClientSnapshotBreak == "teardown"

\* The visitor's StateSnapshotPacket alternative returns into the loop.
AfterClientSnapshot == "recv"

\* Mutant: the first failed send ends the broadcast.
RestAbandoned(list) == <<>>

\* broadcastState after removePlayer(recipient): the range-for goes on with
\* the recipients that follow.
RestAfterFailure(list) == Tail(list)

\* Mutant: registerPlayer spawns the worker without the broadcast.
AfterInitialSendNoBroadcast == "spawn"

\* registerPlayer after a successful initial send: broadcastState().
AfterInitialSend == "gather"

\* Mutant: handleClient returns after removePlayer without the broadcast.
AfterTeardownRemoveNoBroadcast == "done"

\* handleClient after removePlayer: broadcastState().
AfterTeardownRemove == "gather"

\* ------------------------------------------------------------------- Init
InitAt(firstId) ==
    /\ nextId = firstId
    /\ players = <<>>
    /\ sessions = <<>>
    /\ socketOpen = <<>>
    /\ sendMutex = <<>>
    /\ wire = <<>>
    /\ seenGone = <<>>
    /\ pc = [t \in Threads |-> IF t = AcceptThread THEN "accept" ELSE "unborn"]
    /\ caller = [t \in Threads |-> "none"]
    /\ snapshot = [t \in Threads |-> NoSnapshot]
    /\ recipients = [t \in Threads |-> <<>>]
    /\ removed = [t \in Threads |-> NoSession]
    /\ msg = [t \in Threads |-> NoPacket]
    /\ previous = [t \in Threads |-> Position(0, 0)]
    /\ packets = 0
    /\ spoofLog = 0
    /\ handled = [t \in Threads |-> "none"]

\* No function is called on its own while the server runs.
NoCall == [fn |-> "none"]

Init == InitAt(1) /\ call = NoCall

\* Values of nextId at which a run is picked up: the first one, and the two
\* after which the counter crosses 2^31 and 2^32.  nextId only grows by
\* registrations, and a registration whose initial send fails leaves nothing
\* else behind, so the server is in each of these states after that many
\* such registrations.
CounterValues == {1, MinInt32, -1}

LateInit == \E firstId \in CounterValues : InitAt(firstId) /\ call = NoCall

\* ------------------------------------------------- steps shared by callers
Goto(t, label) == pc' = [pc EXCEPT ![t] = label]

\* Sessions whose entry has been removed and that packet does not list.
Gone == {c \in DOMAIN sessions : c \notin snapshotSessions}
ShownGone(packet) == {c \in Gone : sessions[c] \notin DOMAIN packet.players}

\* Mutant: the guard is taken whether or not another thread holds the mutex.
SendLockShared(t, s, next) ==
    /\ sendMutex' = [sendMutex EXCEPT ![s] = t]
    /\ Goto(t, next)

\* Session::send, first half: std::scoped_lock guard{sendMutex}.
SendLock(t, s, next) ==
    /\ sendMutex[s] = NoThread
    /\ sendMutex' = [sendMutex EXCEPT ![s] = t]
    /\ Goto(t, next)

\* Session::send, second half: socket.sendAll(payload), then the guard's
\* release.  A closed socket fails with InvalidState; an open one may take
\* the whole message or fail.
SendAll(t, s, ok, failed) ==
    /\ sendMutex[s] = t
    /\ sendMutex' = [sendMutex EXCEPT ![s] = NoThread]
    /\ \/ /\ socketOpen[s]
          /\ wire' = [wire EXCEPT ![s] = Append(@, snapshot[t])]
          /\ seenGone' = [seenGone EXCEPT ![s] = @ \cup ShownGone(snapshot[t])]
          /\ Goto(t, ok)
       \/ /\ UNCHANGED <<wire, seenGone>>
          /\ Goto(t, failed)

\* removePlayer, the block under playersMutex.
RemoveUnderLock(t, id, found, missing) ==
    IF id \in DOMAIN players
    THEN /\ removed' = [removed EXCEPT ![t] = players[id].session]
         /\ players' = Erase(players, id)
         /\ Goto(t, found)
    ELSE /\ UNCHANGED <<removed, players>>
         /\ Goto(t, missing)

\* removePlayer, after the lock: removed->socket.shutdown(); close().
RemoveClose(t, next) ==
    /\ socketOpen' = [socketOpen EXCEPT ![removed[t]] = FALSE]
    /\ removed' = [removed EXCEPT ![t] = NoSession]
    /\ Goto(t, next)

\* ------------------------------------------------- run / registerPlayer
\* The session registerPlayer works on: the one accepted last.
NewSession == Len(sessions)

AcceptAndRegister ==
    /\ pc[AcceptThread] = "accept"
    /\ Len(sessions) < MaxConns
    /\ LET playerIdentifier == nextId
           session == Len(sessions) + 1
       IN  /\ nextId' = FetchAddStored(nextId)
           /\ sessions' = Append(sessions, playerIdentifier)
           /\ socketOpen' = Append(socketOpen, TRUE)
           /\ sendMutex' = Append(sendMutex, NoThread)
           /\ wire' = Append(wire, <<>>)
           /\ seenGone' = Append(seenGone, {})
           /\ players' = Emplace(players, playerIdentifier,
                                 [position |-> spawnPosition(playerIdentifier),
                                  session |-> session])
    /\ Goto(AcceptThread, "init_gather")
    /\ UNCHANGED <<caller, snapshot, recipients, removed, msg, previous, packets, spoofLog>>
    /\ UNCHANGED <<handled, call>>

InitGather ==
    /\ pc[AcceptThread] = "init_gather"
    /\ snapshot' = [snapshot EXCEPT ![AcceptThread] = gatherSnapshot(sessions[NewSession])]
    /\ Goto(AcceptThread, "init_lock")
    /\ UNCHANGED <<nextId, players, sessions, socketOpen, sendMutex, wire, seenGone, caller,
                   recipients, removed, msg, previous, packets, spoofLog>>
    /\ UNCHANGED <<handled, call>>

InitLock ==
    /\ pc[AcceptThread] = "init_lock"
    /\ SendLock(AcceptThread, NewSession, "init_send")
    /\ UNCHANGED <<nextId, players, sessions, socketOpen, wire, seenGone, caller, snapshot,
                   recipients, removed, msg, previous, packets, spoofLog>>
    /\ UNCHANGED <<handled, call>>

InitSend ==
    /\ pc[AcceptThread] = "init_send"
    /\ SendAll(AcceptThread, NewSession, AfterInitialSend, "init_close")
    /\ caller' = [caller EXCEPT ![AcceptThread] =
                     IF pc'[AcceptThread] = "init_close" THEN @ ELSE "registerPlayer"]
    /\ UNCHANGED <<nextId, players, sessions, socketOpen, snapshot, recipients,
                   removed, msg, previous, packets, spoofLog>>
    /\ UNCHANGED <<handled, call>>

InitClose ==
    /\ pc[AcceptThread] = "init_close"
    /\ socketOpen' = [socketOpen EXCEPT ![NewSession] = FALSE]
    /\ Goto(AcceptThread, "init_remove")
    /\ UNCHANGED <<nextId, players, sessions, sendMutex, wire, seenGone, caller, snapshot,
                   recipients, removed, msg, previous, packets, spoofLog>>
    /\ UNCHANGED <<handled, call>>

InitRemove ==
    /\ pc[AcceptThread] = "init_remove"
    /\ RemoveUnderLock(AcceptThread, sessions[NewSession], "init_rm_close", "accept")
    /\ UNCHANGED <<nextId, sessions, socketOpen, sendMutex, wire, seenGone, caller, snapshot,
                   recipients, msg, previous, packets, spoofLog>>
    /\ UNCHANGED <<handled, call>>

InitRemoveClose ==
    /\ pc[AcceptThread] = "init_rm_close"
    /\ RemoveClose(AcceptThread, "accept")
    /\ UNCHANGED <<nextId, players, sessions, sendMutex, wire, seenGone, caller, snapshot,
                   recipients, msg, previous, packets, spoofLog>>
    /\ UNCHANGED <<handled, call>>

\* workers.emplace_back([this, session]() { handleClient(session); })
SpawnWorker ==
    /\ pc[AcceptThread] = "spawn"
    /\ pc' = [pc EXCEPT ![AcceptThread] = "accept", ![NewSession] = "recv"]
    /\ caller' = [caller EXCEPT ![AcceptThread] = "none"]
    /\ UNCHANGED <<nextId, players, sessions, socketOpen, sendMutex, wire, seenGone, snapshot,
                   recipients, removed, msg, previous, packets, spoofLog>>
    /\ UNCHANGED <<handled, call>>

\* --------------------------------------------------------- broadcastState
ReturnLabel(t) ==
    CASE caller[t] = "registerPlayer" -> "spawn"
      [] caller[t] = "handleMovement" -> "recv"
      [] caller[t] = "handleClient" -> "done"

BroadcastGather(t) ==
    /\ pc[t] = "gather"
    /\ snapshot' = [snapshot EXCEPT ![t] = gatherSnapshot(0)]
    /\ Goto(t, "sessions")
    /\ UNCHANGED <<nextId, players, sessions, socketOpen, sendMutex, wire, seenGone, caller,
                   recipients, removed, msg, previous, packets, spoofLog>>
    /\ UNCHANGED <<handled, call>>

BroadcastSessions(t) ==
    /\ pc[t] = "sessions"
    /\ \E order \in Orders(snapshotSessions) :
          recipients' = [recipients EXCEPT ![t] = order]
    /\ Goto(t, "loop")
    /\ UNCHANGED <<nextId, players, sessions, socketOpen, sendMutex, wire, seenGone, caller,
                   snapshot, removed, msg, previous, packets, spoofLog>>
    /\ UNCHANGED <<handled, call>>

\* The head of `recipients` is the session the loop is at.
BroadcastLock(t) ==
    /\ pc[t] = "loop"
    /\ recipients[t] # <<>>
    /\ SendLock(t, Head(recipients[t]), "send")
    /\ UNCHANGED <<nextId, players, sessions, socketOpen, wire, seenGone, caller, snapshot,
                   recipients, removed, msg, previous, packets, spoofLog>>
    /\ UNCHANGED <<handled, call>>

BroadcastSend(t) ==
    /\ pc[t] = "send"
    /\ SendAll(t, Head(recipients[t]), "loop", "bc_remove")
    /\ recipients' = [recipients EXCEPT ![t] =
                         IF pc'[t] = "loop" THEN Tail(@) ELSE @]
    /\ UNCHANGED <<nextId, players, sessions, socketOpen, caller, snapshot,
                   removed, msg, previous, packets, spoofLog>>
    /\ UNCHANGED <<handled, call>>

BroadcastRemove(t) ==
    /\ pc[t] = "bc_remove"
    /\ RemoveUnderLock(t, sessions[Head(recipients[t])], "bc_rm_close", "loop")
    /\ recipients' = [recipients EXCEPT ![t] =
                         IF pc'[t] = "loop" THEN RestAfterFailure(@) ELSE @]
    /\ UNCHANGED <<nextId, sessions, socketOpen, sendMutex, wire, seenGone, caller, snapshot,
                   msg, previous, packets, spoofLog>>
    /\ UNCHANGED <<handled, call>>

BroadcastRemoveClose(t) ==
    /\ pc[t] = "bc_rm_close"
    /\ RemoveClose(t, "loop")
    /\ recipients' = [recipients EXCEPT ![t] = RestAfterFailure(@)]
    /\ UNCHANGED <<nextId, players, sessions, sendMutex, wire, seenGone, caller, snapshot,
                   msg, previous, packets, spoofLog>>
    /\ UNCHANGED <<handled, call>>

BroadcastReturn(t) ==
    /\ pc[t] = "loop"
    /\ recipients[t] = <<>>
    /\ Goto(t, ReturnLabel(t))
    /\ snapshot' = [snapshot EXCEPT ![t] = NoSnapshot]
    /\ msg' = [msg EXCEPT ![t] = NoPacket]
    /\ previous' = [previous EXCEPT ![t] = Position(0, 0)]
    /\ caller' = [caller EXCEPT ![t] = IF t = AcceptThread THEN @ ELSE "none"]
    /\ UNCHANGED <<nextId, players, sessions, socketOpen, sendMutex, wire, seenGone,
                   recipients, removed, packets, spoofLog>>
    /\ UNCHANGED <<handled, call>>

\* ----------------------------------------------------------- handleClient
\* Packets a client can make the receive loop decode.
ClientPackets(t) ==
    {MovementPacket(p, d) : p \in Range(sessions), d \in Directions}
    \cup {StateSnapshotPacket(0, <<>>)}
    \cup {ChatPacket(sessions[t], "hi")}

\* Ways an iteration of the receive loop can break out of the loop.
ReceiveErrors == {"receive header", "packet header error", "receive payload",
                  "packet decode error"}

ReceivePacket(t) ==
    /\ pc[t] = "recv"
    /\ socketOpen[t]
    /\ packets < MaxPackets
    /\ \E packet \in ClientPackets(t) : msg' = [msg EXCEPT ![t] = packet]
    /\ packets' = packets + 1
    /\ UNCHANGED spoofLog
    /\ Goto(t, "dispatch")
    /\ UNCHANGED <<nextId, players, sessions, socketOpen, sendMutex, wire, seenGone, caller,
                   snapshot, recipients, removed, previous>>
    /\ UNCHANGED <<handled, call>>

ReceiveFails(t) ==
    /\ pc[t] = "recv"
    /\ \E error \in ReceiveErrors :
          \* receive on a closed socket is InvalidState in receiveExact
          (~socketOpen[t] => error = "receive header")
    /\ Goto(t, "teardown")
    /\ UNCHANGED <<nextId, players, sessions, socketOpen, sendMutex, wire, seenGone, caller,
                   snapshot, recipients, removed, msg, previous, packets, spoofLog>>
    /\ UNCHANGED <<handled, call>>

handleMovement(t) ==
    /\ pc[t] = "dispatch"
    /\ msg[t].type = "Movement"
    /\ IF IsSpoofed(msg[t], t)
       THEN /\ spoofLog' = spoofLog + 1
            /\ handled' = [handled EXCEPT ![t] = "spoofed"]
            /\ Goto(t, "recv")
            /\ msg' = [msg EXCEPT ![t] = NoPacket]
            /\ UNCHANGED <<players, previous, caller>>
       ELSE IF sessions[t] \notin DOMAIN players
       THEN /\ players' = EntryMissing(players, sessions[t], t)
            /\ handled' = [handled EXCEPT ![t] = "absent"]
            /\ Goto(t, "recv")
            /\ msg' = [msg EXCEPT ![t] = NoPacket]
            /\ UNCHANGED <<previous, caller, spoofLog>>
       ELSE LET before == players[sessions[t]].position
                after == applyMovement(before, msg[t].direction)
                updated == Updated(before, after)
            IN  /\ players' = StorePosition(players, sessions[t], after)
                /\ handled' = [handled EXCEPT ![t] = IF updated THEN "moved" ELSE "unchanged"]
                /\ UNCHANGED spoofLog
                /\ IF updated
                   THEN /\ Goto(t, "gather")
                        /\ caller' = [caller EXCEPT ![t] = "handleMovement"]
                        /\ previous' = [previous EXCEPT ![t] = before]
                        /\ UNCHANGED msg
                   ELSE /\ Goto(t, "recv")
                        /\ msg' = [msg EXCEPT ![t] = NoPacket]
                        /\ UNCHANGED <<previous, caller>>
    /\ UNCHANGED <<nextId, sessions, socketOpen, sendMutex, wire, seenGone, snapshot,
                   recipients, removed, packets>>
    /\ UNCHANGED call

\* The visitor's StateSnapshotPacket alternative: an empty body.
handleStateSnapshot(t) ==
    /\ pc[t] = "dispatch"
    /\ msg[t].type = "StateSnapshot"
    /\ handled' = [handled EXCEPT ![t] = "snapshot"]
    /\ Goto(t, AfterClientSnapshot)
    /\ msg' = [msg EXCEPT ![t] = NoPacket]
    /\ UNCHANGED <<nextId, players, sessions, socketOpen, sendMutex, wire, seenGone, caller,
                   snapshot, recipients, removed, previous, packets, spoofLog>>
    /\ UNCHANGED call

\* The visitor has no ChatPacket alternative: no statement of the server
\* handles, stores or sends a decoded Chat packet.
handleChat(t) ==
    /\ pc[t] = "dispatch"
    /\ msg[t].type = "Chat"
    /\ handled' = [handled EXCEPT ![t] = "chat"]
    /\ Goto(t, "recv")
    /\ msg' = [msg EXCEPT ![t] = NoPacket]
    /\ UNCHANGED <<nextId, players, sessions, socketOpen, sendMutex, wire, seenGone, caller,
                   snapshot, recipients, removed, previous, packets, spoofLog>>
    /\ UNCHANGED call

\* session->socket.shutdown(); session->socket.close();
\* Mutant: after closing its socket the worker reads on.
AfterTeardownCloseReadsOn == "recv"

\* handleClient after session->socket.close(): removePlayer comes next.
AfterTeardownClose == "td_remove"

TeardownClose(t) ==
    /\ pc[t] = "teardown"
    /\ socketOpen' = [socketOpen EXCEPT ![t] = FALSE]
    /\ Goto(t, AfterTeardownClose)
    /\ UNCHANGED <<nextId, players, sessions, sendMutex, wire, seenGone, caller, snapshot,
                   recipients, removed, msg, previous, packets, spoofLog>>
    /\ UNCHANGED <<handled, call>>

TeardownRemove(t) ==
    /\ pc[t] = "td_remove"
    /\ RemoveUnderLock(t, sessions[t], "td_rm_close", AfterTeardownRemove)
    /\ caller' = [caller EXCEPT ![t] =
                     IF pc'[t] = "td_rm_close" THEN @ ELSE "handleClient"]
    /\ UNCHANGED <<nextId, sessions, socketOpen, sendMutex, wire, seenGone, snapshot,
                   recipients, msg, previous, packets, spoofLog>>
    /\ UNCHANGED <<handled, call>>

TeardownRemoveClose(t) ==
    /\ pc[t] = "td_rm_close"
    /\ RemoveClose(t, AfterTeardownRemove)
    /\ caller' = [caller EXCEPT ![t] = "handleClient"]
    /\ UNCHANGED <<nextId, players, sessions, sendMutex, wire, seenGone, snapshot,
                   recipients, msg, previous, packets, spoofLog>>
    /\ UNCHANGED <<handled, call>>

\* ------------------------------------------------------------------- Next
Workers == 1..MaxConns

AcceptStep ==
    \/ AcceptAndRegister
    \/ InitGather
    \/ InitLock
    \/ InitSend
    \/ InitClose
    \/ InitRemove
    \/ InitRemoveClose
    \/ SpawnWorker

BroadcastStep(t) ==
    \/ BroadcastGather(t)
    \/ BroadcastSessions(t)
    \/ BroadcastLock(t)
    \/ BroadcastSend(t)
    \/ BroadcastRemove(t)
    \/ BroadcastRemoveClose(t)
    \/ BroadcastReturn(t)

WorkerStep(t) ==
    \/ ReceivePacket(t)
    \/ ReceiveFails(t)
    \/ handleMovement(t)
    \/ handleStateSnapshot(t)
    \/ handleChat(t)
    \/ TeardownClose(t)
    \/ TeardownRemove(t)
    \/ TeardownRemoveClose(t)

Next ==
    \/ AcceptStep
    \/ \E t \in Threads : BroadcastStep(t)
    \/ \E t \in Workers : WorkerStep(t)

Spec == Init /\ [][Next]_vars

\* Steps a thread takes on its own, once scheduled: everything but waiting in
\* accept() or in receiveExact() for the peer.
AcceptInternal ==
    InitGather \/ InitLock \/ InitSend \/ InitClose \/ InitRemove
    \/ InitRemoveClose \/ SpawnWorker

WorkerInternal(t) ==
    handleMovement(t) \/ handleStateSnapshot(t) \/ handleChat(t)
    \/ TeardownClose(t) \/ TeardownRemove(t) \/ TeardownRemoveClose(t)

Fairness ==
    /\ WF_vars(AcceptInternal)
    /\ \A t \in Threads : WF_vars(BroadcastStep(t))
    /\ \A t \in Workers : WF_vars(WorkerInternal(t))

FairSpec == Spec /\ Fairness

LateSpec == LateInit /\ [][Next]_vars

\* Scheduling when a peer may stop reading.  The sockets are blocking ones, so
\* sendAll to an open socket whose peer has stopped reading waits inside
\* ::send for as long as the peer pleases: that step is not one the server
\* takes on its own.  A send on a closed socket returns InvalidState at once,
\* and the peer of the connection accepted last is taken to be reading, so
\* that only a participant registered earlier can make a send wait.
SendReturnsAtOnce(t) ==
    BroadcastSend(t)
    /\ \/ ~socketOpen[Head(recipients[t])]
       \/ Head(recipients[t]) = NewSession

StallFairness ==
    /\ WF_vars(AcceptInternal)
    /\ \A t \in Threads : WF_vars(BroadcastStep(t) /\ pc[t] # "send")
    /\ \A t \in Threads : WF_vars(SendReturnsAtOnce(t))
    /\ \A t \in Workers : WF_vars(WorkerInternal(t))

StallSpec == Spec /\ StallFairness

\* ------------------------------------------------------------ packets.hpp
\* Bytes are the integers 0..255.  A std::uint16_t is its value; a
\* std::uint32_t or std::int32_t is its bit pattern, as above; a char is a
\* signed one, -128..127.
protocolVersion == 1
packetHeaderSize == 2 + 2 + 4
reservedBytes == 3

TypeTag == [Movement |-> 1, StateSnapshot |-> 2, Chat |-> 3]
\* Mutant: Up and Down have each other's code.
DirectionTagSwapped == [Up |-> 1, Down |-> 0, Left |-> 2, Right |-> 3]

DirectionTag == [Up |-> 0, Down |-> 1, Left |-> 2, Right |-> 3]

\* static_cast<Direction>(directionValue), for a value the decoder lets by.
DirectionOf(value) == CHOOSE d \in Directions : DirectionTag[d] = value

\* static_cast<PacketType>(value) of a std::uint16_t: PacketType has the
\* underlying type std::uint8_t, to which the value is converted first.
ToPacketType(value) == value % 256

\* static_cast<std::uint8_t>(chr) and static_cast<char>(byte).
CharToByte(chr) == chr % 256
ByteToChar(byte) == IF byte >= 128 THEN byte - 256 ELSE byte

PlayerState(player, position) == [player |-> player, position |-> position]
PacketHeader(version, type, payloadSize) ==
    [version |-> version, type |-> type, payloadSize |-> payloadSize]

\* std::expected: a value, or std::unexpected(error).
Expected(value) == [ok |-> TRUE, value |-> value]
Unexpected(error) == [ok |-> FALSE, error |-> error]

\* toBigEndian and std::bit_cast to bytes: the `size` bytes of value, the
\* most significant first.
ToBytes(value, size) == [i \in 1..size |-> (value \div (256 ^ (size - i))) % 256]

\* std::bit_cast from bytes and fromBigEndian; four bytes give a bit pattern.
FromBytes(raw) ==
    CASE Len(raw) = 1 -> raw[1]
      [] Len(raw) = 2 -> raw[1] * 256 + raw[2]
      [] Len(raw) = 4 -> (IF raw[1] >= 128 THEN raw[1] - 256 ELSE raw[1]) * 16777216
                         + raw[2] * 65536 + raw[3] * 256 + raw[4]

\* readIntegral<T> and PayloadReader::read<T>, sizeof(T) = size, at offset.
readIntegral(buffer, offset, size) ==
    IF offset + size > Len(buffer)
    THEN Unexpected("Truncated")
    ELSE Expected(FromBytes(SubSeq(buffer, offset + 1, offset + size)))

\* PayloadReader::skip(length) at offset.
skip(buffer, offset, length) ==
    IF offset + length > Len(buffer) THEN Unexpected("Truncated") ELSE Expected(offset + length)

\* Mutant: the length field counts the header too.
encodeHeaderCountsItself(header) ==
    ToBytes(header.version, 2) \o ToBytes(header.type, 2)
    \o ToBytes(header.payloadSize + packetHeaderSize, 4)

encodeHeader(header) ==
    ToBytes(header.version, 2) \o ToBytes(header.type, 2) \o ToBytes(header.payloadSize, 4)

\* Mutant: the type tag is looked at before the version.
HeaderChecksTypeFirst(version, typeValue, payloadSize) ==
    IF ToPacketType(typeValue) \notin {TypeTag.Movement, TypeTag.StateSnapshot, TypeTag.Chat}
    THEN Unexpected("UnknownType")
    ELSE IF version # protocolVersion
    THEN Unexpected("VersionMismatch")
    ELSE Expected(PacketHeader(version, ToPacketType(typeValue), payloadSize))

\* decodeHeader once the three fields are read: the version test, then the
\* switch over the converted type.
HeaderChecks(version, typeValue, payloadSize) ==
    IF version # protocolVersion
    THEN Unexpected("VersionMismatch")
    ELSE LET decodedType == ToPacketType(typeValue)
         IN  IF decodedType \in {TypeTag.Movement, TypeTag.StateSnapshot, TypeTag.Chat}
             THEN Expected(PacketHeader(version, decodedType, payloadSize))
             ELSE Unexpected("UnknownType")

\* Mutant: a short buffer is read as if zeros followed it.
decodeHeaderPadded(buffer) ==
    LET padded == buffer \o [i \in 1..(packetHeaderSize - Len(buffer)) |-> 0]
    IN  HeaderChecks(FromBytes(SubSeq(padded, 1, 2)), FromBytes(SubSeq(padded, 3, 4)),
                     FromBytes(SubSeq(padded, 5, 8)))

decodeHeader(buffer) ==
    IF Len(buffer) < packetHeaderSize
    THEN Unexpected("Truncated")
    ELSE LET version == readIntegral(buffer, 0, 2)
             typeValue == readIntegral(buffer, 2, 2)
             payloadSize == readIntegral(buffer, 4, 4)
         IN  IF ~version.ok THEN version
             ELSE IF ~typeValue.ok THEN typeValue
             ELSE IF ~payloadSize.ok THEN payloadSize
             ELSE HeaderChecks(version.value, typeValue.value, payloadSize.value)

\* Mutant: no reserved bytes are written.
NoPadding(length) == <<>>

\* PayloadWriter::writePadding(length)
Padding(length) == [i \in 1..length |-> 0]

RECURSIVE EncodeEntries(_)
EncodeEntries(entries) ==
    IF entries = <<>>
    THEN <<>>
    ELSE ToBytes(Head(entries).player, 4) \o ToBytes(Head(entries).position.x, 4)
         \o ToBytes(Head(entries).position.y, 4) \o EncodeEntries(Tail(entries))

encodePayload(packet) ==
    CASE packet.type = "Movement" ->
             ToBytes(packet.player, 4) \o <<DirectionTag[packet.direction]>>
             \o Padding(reservedBytes)
      [] packet.type = "StateSnapshot" ->
             ToBytes(packet.focusPlayer, 4) \o ToBytes(Len(packet.players), 4)
             \o EncodeEntries(packet.players)
      [] packet.type = "Chat" ->
             ToBytes(packet.player, 4)
             \o [i \in 1..Len(packet.message) |-> CharToByte(packet.message[i])]

encode(packet) ==
    LET payload == encodePayload(packet)
    IN  encodeHeader(PacketHeader(protocolVersion, TypeTag[packet.type], Len(payload)))
        \o payload

decodeMovement(payload) ==
    LET playerId == readIntegral(payload, 0, 4)
        directionRaw == readIntegral(payload, 4, 1)
        skipResult == skip(payload, 5, reservedBytes)
    IN  IF ~playerId.ok THEN playerId
        ELSE IF ~directionRaw.ok THEN directionRaw
        ELSE IF ~skipResult.ok THEN skipResult
        ELSE IF directionRaw.value > DirectionTag.Right THEN Unexpected("InvalidPayload")
        ELSE Expected(MovementPacket(playerId.value, DirectionOf(directionRaw.value)))

\* decodeStateSnapshot's loop from `index` on, the reader at `offset` and the
\* entries read so far in `entries`; index < count is an unsigned comparison.
RECURSIVE ReadEntries(_, _, _, _, _)
ReadEntries(payload, offset, index, count, entries) ==
    IF ~ULess(index, count)
    THEN Expected([players |-> entries, offset |-> offset])
    ELSE LET playerId == readIntegral(payload, offset, 4)
             positionX == readIntegral(payload, offset + 4, 4)
             positionY == readIntegral(payload, offset + 8, 4)
         IN  IF ~playerId.ok THEN playerId
             ELSE IF ~positionX.ok THEN positionX
             ELSE IF ~positionY.ok THEN positionY
             ELSE ReadEntries(payload, offset + 12, index + 1, count,
                              Append(entries,
                                     PlayerState(playerId.value,
                                                 Position(positionX.value, positionY.value))))

decodeStateSnapshot(payload) ==
    LET focusId == readIntegral(payload, 0, 4)
        count == readIntegral(payload, 4, 4)
    IN  IF ~focusId.ok THEN focusId
        ELSE IF ~count.ok THEN count
        ELSE LET read == ReadEntries(payload, 8, 0, count.value, <<>>)
             IN  IF ~read.ok THEN read
                 ELSE IF Len(payload) - read.value.offset # 0
                 THEN Unexpected("SizeMismatch")
                 ELSE Expected(StateSnapshotPacket(focusId.value, read.value.players))

decodeChat(payload) ==
    LET playerId == readIntegral(payload, 0, 4)
    IN  IF ~playerId.ok THEN playerId
        ELSE LET messageLength == Len(payload) - 4
             IN  Expected(ChatPacket(playerId.value,
                                     [i \in 1..messageLength |-> ByteToChar(payload[4 + i])]))

decodePacket(header, payload) ==
    IF Len(payload) # header.payloadSize
    THEN Unexpected("SizeMismatch")
    ELSE CASE header.type = TypeTag.Movement -> decodeMovement(payload)
           [] header.type = TypeTag.StateSnapshot -> decodeStateSnapshot(payload)
           [] header.type = TypeTag.Chat -> decodeChat(payload)
           [] OTHER -> Unexpected("UnknownType")

\* --------------------------------------------- functions called on their own
\* The variables of the server stay as constructed while a function is
\* called on its own.
ServerIdle == InitAt(1)

\* handleMovement's locked block and the test that follows it, for an entry
\* found at `position`: applyMovement through the reference, `updated`, and
\* whether broadcastState() is called.
GridPositions == {Position(x, y) : x \in 0..(gridWidth - 1), y \in 0..(gridHeight - 1)}

MoveInit ==
    /\ ServerIdle
    /\ \E position \in GridPositions, direction \in Directions :
          call = [fn |-> "applyMovement", done |-> FALSE,
                  position |-> position, direction |-> direction]

CallApplyMovement ==
    /\ call.fn = "applyMovement"
    /\ ~call.done
    /\ LET previousPosition == call.position
           position == applyMovement(previousPosition, call.direction)
           updated == Updated(previousPosition, position)
       IN  call' = [fn |-> "applyMovement", done |-> TRUE,
                    position |-> call.position, direction |-> call.direction,
                    result |-> position, updated |-> updated,
                    broadcast |-> updated]
    /\ UNCHANGED serverVars

MoveNext == CallApplyMovement

MoveSpec == MoveInit /\ [][MoveNext]_vars

\* spawnPosition, for the ids of the first gridWidth * gridHeight + 1
\* registrations and for the ids on both sides of 2^31 and of 2^32.
SpawnIds ==
    (1..(gridWidth * gridHeight + 1))
    \cup {MaxInt32, MinInt32, Inc32(MinInt32), -1, 0}

SpawnInit ==
    /\ ServerIdle
    /\ \E playerIdentifier \in SpawnIds :
          call = [fn |-> "spawnPosition", done |-> FALSE,
                  playerIdentifier |-> playerIdentifier]

CallSpawnPosition ==
    /\ call.fn = "spawnPosition"
    /\ ~call.done
    /\ call' = [fn |-> "spawnPosition", done |-> TRUE,
                playerIdentifier |-> call.playerIdentifier,
                result |-> spawnPosition(call.playerIdentifier)]
    /\ UNCHANGED serverVars

SpawnNext == CallSpawnPosition

SpawnSpec == SpawnInit /\ [][SpawnNext]_vars

\* encode, then what handleClient does with the bytes: receiveExact of the
\* header, decodeHeader, receiveExact of header.payloadSize bytes,
\* decodePacket.
SeqsUpTo(S, n) == UNION {[1..k -> S] : k \in 0..n}

\* Ids: the sentinel, a small one, one above a byte, the largest.
CodecIds == {0, 1, 258, -1}
\* Coordinates: negative, zero, above a byte.
CodecCoordinates == {-1, 0, 300}
\* chars: NUL, newline, 'h', and '\xff'.
CodecChars == {0, 10, 104, -1}

CodecEntries ==
    {PlayerState(player, Position(x, y)) :
        player \in CodecIds \ {0}, x \in CodecCoordinates, y \in CodecCoordinates}

CodecPackets ==
    {MovementPacket(player, direction) : player \in CodecIds, direction \in Directions}
    \cup {StateSnapshotPacket(focus, entries) :
              focus \in CodecIds, entries \in SeqsUpTo(CodecEntries, MaxEntries)}
    \cup {ChatPacket(player, message) :
              player \in CodecIds, message \in SeqsUpTo(CodecChars, MaxText)}

CodecInit ==
    /\ ServerIdle
    /\ \E packet \in CodecPackets :
          call = [fn |-> "encode", done |-> FALSE, packet |-> packet]

CallEncode ==
    /\ call.fn = "encode"
    /\ ~call.done
    /\ call' = [fn |-> "encode", done |-> TRUE, packet |-> call.packet,
                bytes |-> encode(call.packet)]
    /\ UNCHANGED serverVars

\* handleClient: receiveExact(packetHeaderSize) on the encoded bytes.
ReceiveHeader ==
    /\ call.fn = "encode"
    /\ call.done
    /\ Len(call.bytes) >= packetHeaderSize
    /\ call' = [fn |-> "decodeHeader", done |-> FALSE, packet |-> call.packet,
                bytes |-> call.bytes,
                buffer |-> SubSeq(call.bytes, 1, packetHeaderSize)]
    /\ UNCHANGED serverVars

CallDecodeHeader ==
    /\ call.fn = "decodeHeader"
    /\ ~call.done
    /\ call' = [done |-> TRUE, result |-> decodeHeader(call.buffer)] @@ call
    /\ UNCHANGED serverVars

\* handleClient: receiveExact(packetHeader.payloadSize), which returns once
\* that many bytes have come.
ReceivePayload ==
    /\ call.fn = "decodeHeader"
    /\ call.done
    /\ "bytes" \in DOMAIN call
    /\ call.result.ok
    /\ LET payloadSize == call.result.value.payloadSize
       IN  /\ 0 <= payloadSize
           /\ packetHeaderSize + payloadSize <= Len(call.bytes)
           /\ call' = [fn |-> "decodePacket", done |-> FALSE, packet |-> call.packet,
                       bytes |-> call.bytes, header |-> call.result.value,
                       payload |-> SubSeq(call.bytes, packetHeaderSize + 1,
                                          packetHeaderSize + payloadSize)]
    /\ UNCHANGED serverVars

CallDecodePacket ==
    /\ call.fn = "decodePacket"
    /\ ~call.done
    /\ call' = [done |-> TRUE, result |-> decodePacket(call.header, call.payload)] @@ call
    /\ UNCHANGED serverVars

CodecNext ==
    \/ CallEncode
    \/ ReceiveHeader
    \/ CallDecodeHeader
    \/ ReceivePayload
    \/ CallDecodePacket

CodecSpec == CodecInit /\ [][CodecNext]_vars

\* decodeHeader on buffers that need not come from encodeHeader: every type
\* field under version 1, every version field under three type fields, and
\* versions, types and payload sizes around their edges in buffers of 8 and
\* of 9 bytes.
U16Values == 0..65535

HeaderFields ==
    ({protocolVersion} \X U16Values \X {0} \X {<<>>})
    \cup (U16Values \X {1, 4, 257} \X {0} \X {<<>>})
    \cup ({0, 1, 2, 256, 257, 65535} \X {0, 1, 2, 3, 4, 255, 256, 257, 259, 260, 65535}
          \X {0, 8, MaxInt32, -1} \X {<<>>, <<0>>})

HeaderInit ==
    /\ ServerIdle
    /\ \E fields \in HeaderFields :
          call = [fn |-> "decodeHeader", done |-> FALSE,
                  buffer |-> ToBytes(fields[1], 2) \o ToBytes(fields[2], 2)
                             \o ToBytes(fields[3], 4) \o fields[4]]

HeaderNext == CallDecodeHeader

HeaderSpec == HeaderInit /\ [][HeaderNext]_vars

\* decodeHeader on every buffer shorter than a header, over three byte
\* values; 0 and 1 make up the beginnings of well-formed headers.
ShortBytes == {0, 1, 255}

ShortBuffers == SeqsUpTo(ShortBytes, packetHeaderSize - 1)

ShortHeaderInit ==
    /\ ServerIdle
    /\ \E buffer \in ShortBuffers :
          call = [fn |-> "decodeHeader", done |-> FALSE, buffer |-> buffer]

ShortHeaderNext == CallDecodeHeader

ShortHeaderSpec == ShortHeaderInit /\ [][ShortHeaderNext]_vars

\* decodeMovement on every 8-byte payload made of an id, any direction byte
\* and reserved bytes that are 0 or 255.
MovementPayloads ==
    {ToBytes(player, 4) \o <<direction>> \o reserved :
        player \in CodecIds, direction \in 0..255,
        reserved \in [1..reservedBytes -> {0, 255}]}

MovementPayloadInit ==
    /\ ServerIdle
    /\ \E payload \in MovementPayloads :
          call = [fn |-> "decodeMovement", done |-> FALSE, payload |-> payload]

CallDecodeMovement ==
    /\ call.fn = "decodeMovement"
    /\ ~call.done
    /\ call' = [done |-> TRUE, result |-> decodeMovement(call.payload)] @@ call
    /\ UNCHANGED serverVars

MovementPayloadNext == CallDecodeMovement

MovementPayloadSpec == MovementPayloadInit /\ [][MovementPayloadNext]_vars

\* sizeof(PlayerState): a std::uint32_t and two std::int32_t.
sizeofPlayerState == 12

\* An exception that leaves the function instead of a returned result.
Thrown(exception) == [ok |-> FALSE, thrown |-> exception]

\* packet.players.reserve(*count) with the count as the payload gives it.
\* Where std::size_t has 32 bits the vector's max_size() is
\* PTRDIFF_MAX / sizeof(PlayerState) and a larger count throws
\* std::length_error; where it has 64 bits the request is for count * 12
\* bytes at once, which the allocator grants or refuses with std::bad_alloc.
reserve(count) ==
    IF ULess(MaxInt32 \div sizeofPlayerState, count)
    THEN {"reserved", "length_error", "bad_alloc"}
    ELSE {"reserved"}

\* What a call of decodeStateSnapshot can end in: reserve comes after the
\* focus id and the count were read and before the first entry is.
decodeStateSnapshotOutcomes(payload) ==
    LET focusId == readIntegral(payload, 0, 4)
        count == readIntegral(payload, 4, 4)
    IN  IF ~focusId.ok \/ ~count.ok
        THEN {decodeStateSnapshot(payload)}
        ELSE {IF outcome = "reserved" THEN decodeStateSnapshot(payload) ELSE Thrown(outcome) :
                outcome \in reserve(count.value)}

\* decodeStateSnapshot on payloads that need not come from encode: a focus
\* id, a count field that need not match, entries, extra bytes after them,
\* and the whole cut short by 0, 1 or 11 bytes.
SnapshotCounts == {0, 1, 2, 3, MaxInt32 \div sizeofPlayerState,
                   MaxInt32 \div sizeofPlayerState + 1, MinInt32, -1}

SnapshotEntries == {PlayerState(1, Position(0, 0)), PlayerState(-1, Position(-1, 300))}

CutShort(bytes, cut) == SubSeq(bytes, 1, Len(bytes) - cut)

SnapshotBodies ==
    {CutShort(EncodeEntries(entries) \o extra, cut) :
        entries \in SeqsUpTo(SnapshotEntries, MaxEntries),
        extra \in SeqsUpTo({0, 255}, 2),
        cut \in {0, 1, 11}}

SnapshotPayloads ==
    {ToBytes(focus, 4) \o ToBytes(count, 4) \o body :
        focus \in {0, 1}, count \in SnapshotCounts, body \in SnapshotBodies}

SnapshotPayloadInit ==
    /\ ServerIdle
    /\ \E payload \in SnapshotPayloads :
          call = [fn |-> "decodeStateSnapshot", done |-> FALSE, payload |-> payload]

CallDecodeStateSnapshot ==
    /\ call.fn = "decodeStateSnapshot"
    /\ ~call.done
    /\ \E result \in decodeStateSnapshotOutcomes(call.payload) :
          call' = [done |-> TRUE, result |-> result] @@ call
    /\ UNCHANGED serverVars

SnapshotPayloadNext == CallDecodeStateSnapshot

SnapshotPayloadSpec == SnapshotPayloadInit /\ [][SnapshotPayloadNext]_vars

\* ------------------------------------------------------------ network.hpp
\* A signal whose default action ends the process before the call returns.
Signalled(signal) == [ok |-> FALSE, signal |-> signal]

\* ::send(m_handle, data, length, 0) failing with errno: the flags are 0, so
\* EPIPE comes with SIGPIPE, which the program neither ignores nor handles:
\* the process ends there unless it was started with the signal ignored or
\* the platform has none; every other errno is only returned.
SendFailure(errno) ==
    IF errno = "EPIPE"
    THEN {Unexpected("SendFailed"), Signalled("SIGPIPE")}
    ELSE {Unexpected("SendFailed")}

\* errno values that are neither EINTR nor EWOULDBLOCK / EAGAIN.
OtherErrnos == {"ECONNRESET", "EPIPE"}

\* TcpSocket::sendAll on its own: `buffer` is the argument, `sentTotal` the
\* local, `accepted` the bytes the low level took so far, `last` the outcome
\* of the latest low-level call.
SendBuffers ==
    {[i \in 1..n |-> i] : n \in 0..MaxBuffer} \cup SeqsUpTo({0, 255}, MaxBuffer)

SendInit ==
    /\ ServerIdle
    /\ \E buffer \in SendBuffers, open \in BOOLEAN :
          call = [fn |-> "sendAll", done |-> FALSE, open |-> open, buffer |-> buffer,
                  sentTotal |-> 0, accepted |-> <<>>, interrupts |-> 0, last |-> "none"]

InSendAll ==
    /\ call.fn = "sendAll"
    /\ ~call.done
    /\ call.sentTotal < Len(call.buffer)

\* while (sentTotal < buffer.size()) is false: return {}.
SendAllReturns ==
    /\ call.fn = "sendAll"
    /\ ~call.done
    /\ ~(call.sentTotal < Len(call.buffer))
    /\ call' = [done |-> TRUE, result |-> Expected("void")] @@ call
    /\ UNCHANGED serverVars

\* send: if (!isOpen()) return InvalidState, which sendAll passes on.
SendOnClosed ==
    /\ InSendAll
    /\ ~call.open
    /\ call' = [done |-> TRUE, result |-> Unexpected("InvalidState")] @@ call
    /\ UNCHANGED serverVars

\* ::send returns count >= 0 of the remaining bytes; 0 ends sendAll with
\* ConnectionClosed, anything else is added to sentTotal.
NativeSendAccepts ==
    /\ InSendAll
    /\ call.open
    /\ \E count \in 0..(Len(call.buffer) - call.sentTotal) :
          IF count = 0
          THEN call' = [done |-> TRUE, last |-> "zero",
                        result |-> Unexpected("ConnectionClosed")] @@ call
          ELSE call' = [sentTotal |-> call.sentTotal + count, last |-> "accepted",
                        accepted |-> call.accepted
                                     \o SubSeq(call.buffer, call.sentTotal + 1,
                                               call.sentTotal + count)] @@ call
    /\ UNCHANGED serverVars

\* ::send fails with EINTR: send's loop calls it again.
NativeSendInterrupted ==
    /\ InSendAll
    /\ call.open
    /\ call.interrupts < MaxInterrupts
    /\ call' = [interrupts |-> call.interrupts + 1, last |-> "EINTR"] @@ call
    /\ UNCHANGED serverVars

\* ::send fails with EWOULDBLOCK or EAGAIN.
NativeSendWouldBlock ==
    /\ InSendAll
    /\ call.open
    /\ call' = [done |-> TRUE, last |-> "EWOULDBLOCK",
                result |-> Unexpected("WouldBlock")] @@ call
    /\ UNCHANGED serverVars

\* ::send fails with any other errno.
NativeSendFails ==
    /\ InSendAll
    /\ call.open
    /\ \E errno \in OtherErrnos :
          \E result \in SendFailure(errno) :
             call' = [done |-> TRUE, last |-> errno, result |-> result] @@ call
    /\ UNCHANGED serverVars

SendNext ==
    \/ SendAllReturns
    \/ SendOnClosed
    \/ NativeSendAccepts
    \/ NativeSendInterrupted
    \/ NativeSendWouldBlock
    \/ NativeSendFails

SendSpec == SendInit /\ [][SendNext]_vars

\* std::vector<std::byte> buffer(byteCount) with the count as the caller gives
\* it; handleClient passes the 32-bit payloadSize of the header it read.
\* Where std::size_t has 32 bits max_size() is PTRDIFF_MAX and a larger count
\* throws std::length_error; where it has 64 bits the constructor asks for
\* that many bytes at once and zeroes them, or ends in std::bad_alloc.
construct(byteCount) ==
    IF ULess(MaxInt32, byteCount)
    THEN {"constructed", "length_error", "bad_alloc"}
    ELSE {"constructed"}

\* TcpSocket::receiveExact on its own: `byteCount` is the argument,
\* `received` the local, `buffer` the part of the vector filled so far (the
\* zeros behind it are not kept), `delivered` the bytes the low-level reads
\* gave, `last` the outcome of the latest low-level call.
ReceiveCounts == 0..MaxBuffer \cup {MaxInt32, MinInt32, -1}

ReceiveInit ==
    /\ ServerIdle
    /\ \E byteCount \in ReceiveCounts, open \in BOOLEAN :
          call = [fn |-> "receiveExact", done |-> FALSE, open |-> open,
                  byteCount |-> byteCount, constructed |-> FALSE, received |-> 0,
                  buffer |-> <<>>, delivered |-> <<>>, interrupts |-> 0, last |-> "none"]

\* The space left in the span given to receive; of a count beyond MaxBuffer
\* only the first MaxBuffer bytes are followed.
SpanSize == IF call.byteCount \in 0..MaxBuffer
            THEN call.byteCount - call.received
            ELSE MaxBuffer - call.received

ReceiveExactConstructs ==
    /\ call.fn = "receiveExact"
    /\ ~call.done
    /\ ~call.constructed
    /\ \E outcome \in construct(call.byteCount) :
          IF outcome = "constructed"
          THEN call' = [constructed |-> TRUE] @@ call
          ELSE call' = [done |-> TRUE, result |-> Thrown(outcome)] @@ call
    /\ UNCHANGED serverVars

InReceiveExact ==
    /\ call.fn = "receiveExact"
    /\ ~call.done
    /\ call.constructed
    /\ ULess(call.received, call.byteCount)

\* while (received < byteCount) is false: return buffer.
ReceiveExactReturns ==
    /\ call.fn = "receiveExact"
    /\ ~call.done
    /\ call.constructed
    /\ ~ULess(call.received, call.byteCount)
    /\ call' = [done |-> TRUE, result |-> Expected(call.buffer)] @@ call
    /\ UNCHANGED serverVars

\* receive: if (!isOpen()) return InvalidState, which receiveExact passes on.
ReceiveOnClosed ==
    /\ InReceiveExact
    /\ ~call.open
    /\ call' = [done |-> TRUE, result |-> Unexpected("InvalidState")] @@ call
    /\ UNCHANGED serverVars

\* ::recv returns count > 0 and has written that many bytes at `received`.
NativeRecvDelivers ==
    /\ InReceiveExact
    /\ call.open
    /\ \E count \in 1..SpanSize :
          \E bytes \in [1..count -> {0, 255}] :
             call' = [received |-> call.received + count, last |-> "delivered",
                      buffer |-> SubSeq(call.buffer, 1, call.received) \o bytes,
                      delivered |-> call.delivered \o bytes] @@ call
    /\ UNCHANGED serverVars

\* ::recv returns 0: receive returns ConnectionClosed.
NativeRecvZero ==
    /\ InReceiveExact
    /\ call.open
    /\ call' = [done |-> TRUE, last |-> "zero",
                result |-> Unexpected("ConnectionClosed")] @@ call
    /\ UNCHANGED serverVars

\* ::recv fails with EINTR: receive's loop calls it again.
NativeRecvInterrupted ==
    /\ InReceiveExact
    /\ call.open
    /\ call.interrupts < MaxInterrupts
    /\ call' = [interrupts |-> call.interrupts + 1, last |-> "EINTR"] @@ call
    /\ UNCHANGED serverVars

\* ::recv fails with EWOULDBLOCK or EAGAIN.
NativeRecvWouldBlock ==
    /\ InReceiveExact
    /\ call.open
    /\ call' = [done |-> TRUE, last |-> "EWOULDBLOCK",
                result |-> Unexpected("WouldBlock")] @@ call
    /\ UNCHANGED serverVars

\* ::recv fails with any other errno.
NativeRecvFails ==
    /\ InReceiveExact
    /\ call.open
    /\ call' = [done |-> TRUE, last |-> "ECONNRESET",
                result |-> Unexpected("ReceiveFailed")] @@ call
    /\ UNCHANGED serverVars

ReceiveNext ==
    \/ ReceiveExactConstructs
    \/ ReceiveExactReturns
    \/ ReceiveOnClosed
    \/ NativeRecvDelivers
    \/ NativeRecvZero
    \/ NativeRecvInterrupted
    \/ NativeRecvWouldBlock
    \/ NativeRecvFails

ReceiveSpec == ReceiveInit /\ [][ReceiveNext]_vars

\* One session torn down by two threads, statement by statement: its worker
\* leaves handleClient's loop (socket.shutdown(), socket.close(),
\* removePlayer) while another thread, whose send to the session failed,
\* is in removePlayer for the same id (the erase under playersMutex, then
\* removed->socket.shutdown(), removed->socket.close()).  TcpSocket::close
\* is `if (isOpen()) { closeHandle(m_handle); m_handle = invalid; }` on a
\* plain member and under no mutex, so the statements of the two threads
\* interleave.  `handle` is m_handle, `entry` whether players holds the id,
\* `releases` how often ::close was called on the descriptor, `erased` how
\* often players.erase ran, `at` each thread's position, `descriptor` whose
\* the descriptor number is: this connection's, nobody's, or a connection's
\* that run() accepted since, and `stray` whether that one was closed here.
Closers == {"worker", "other"}

CloseInit ==
    /\ ServerIdle
    /\ call = [fn |-> "close", handle |-> "open", entry |-> TRUE,
               releases |-> 0, erased |-> 0, descriptor |-> "ours", stray |-> FALSE,
               at |-> [worker |-> "recv", other |-> "send"]]

At(thread, label) == call.fn = "close" /\ call.at[thread] = label

Move(thread, label) == [call.at EXCEPT ![thread] = label]

\* Where a thread goes on after the close it is in.
AfterClose(label) ==
    IF label \in {"td_shutdown", "td_isOpen", "td_closeHandle", "td_assign"}
    THEN "removePlayer"
    ELSE "returned"

\* The worker's receiveExact fails: break, on to the teardown.
WorkerLeavesLoop ==
    /\ At("worker", "recv")
    /\ call' = [at |-> Move("worker", "td_shutdown")] @@ call
    /\ UNCHANGED serverVars

\* The other thread's session->send fails in broadcastState:
\* removePlayer(session->playerId).
OtherSendFails ==
    /\ At("other", "send")
    /\ call' = [at |-> Move("other", "removePlayer")] @@ call
    /\ UNCHANGED serverVars

\* The other thread's send succeeds: it makes no removal.
OtherSendSucceeds ==
    /\ At("other", "send")
    /\ call.handle = "open"
    /\ call' = [at |-> Move("other", "returned")] @@ call
    /\ UNCHANGED serverVars

\* removePlayer under playersMutex: find, move the session out, erase.
CloserRemoves(thread) ==
    /\ At(thread, "removePlayer")
    /\ IF call.entry
       THEN call' = [entry |-> FALSE, erased |-> call.erased + 1,
                     at |-> Move(thread, "rm_shutdown")] @@ call
       ELSE call' = [at |-> Move(thread, "returned")] @@ call
    /\ UNCHANGED serverVars

\* socket.shutdown(): ::shutdown on the handle if isOpen().
CloserShutsDown(thread) ==
    /\ \E label \in {"td_shutdown", "rm_shutdown"} :
          /\ At(thread, label)
          /\ call' = [at |-> Move(thread, IF label = "td_shutdown"
                                           THEN "td_isOpen" ELSE "rm_isOpen")] @@ call
    /\ UNCHANGED serverVars

\* close(): if (isOpen()).
CloserTestsOpen(thread) ==
    /\ \E label \in {"td_isOpen", "rm_isOpen"} :
          /\ At(thread, label)
          /\ call' = [at |-> Move(thread,
                                  IF call.handle = "open"
                                  THEN (IF label = "td_isOpen"
                                        THEN "td_closeHandle" ELSE "rm_closeHandle")
                                  ELSE AfterClose(label))] @@ call
    /\ UNCHANGED serverVars

\* close(): Detail::closeHandle(m_handle) reads the member again and calls
\* ::close on it unless it is the invalid handle.
CloserClosesHandle(thread) ==
    /\ \E label \in {"td_closeHandle", "rm_closeHandle"} :
          /\ At(thread, label)
          /\ call' = [at |-> Move(thread, IF label = "td_closeHandle"
                                           THEN "td_assign" ELSE "rm_assign"),
                      releases |-> IF call.handle = "open"
                                   THEN call.releases + 1 ELSE call.releases,
                      descriptor |-> IF call.handle = "open"
                                     THEN "free" ELSE call.descriptor,
                      stray |-> call.stray
                                \/ (call.handle = "open" /\ call.descriptor = "theirs")]
                     @@ call
    /\ UNCHANGED serverVars

\* run(): accept returns a new connection, whose descriptor is the lowest
\* free number: the one released here.
AcceptTakesDescriptor ==
    /\ call.fn = "close"
    /\ call.descriptor = "free"
    /\ call' = [descriptor |-> "theirs"] @@ call
    /\ UNCHANGED serverVars

\* close(): m_handle = Detail::invalidSocketHandle.
CloserAssigns(thread) ==
    /\ \E label \in {"td_assign", "rm_assign"} :
          /\ At(thread, label)
          /\ call' = [at |-> Move(thread, AfterClose(label)),
                      handle |-> "invalid"] @@ call
    /\ UNCHANGED serverVars

CloseNext ==
    \/ WorkerLeavesLoop
    \/ OtherSendFails
    \/ OtherSendSucceeds
    \/ AcceptTakesDescriptor
    \/ \E thread \in Closers :
          \/ CloserRemoves(thread)
          \/ CloserShutsDown(thread)
          \/ CloserTestsOpen(thread)
          \/ CloserClosesHandle(thread)
          \/ CloserAssigns(thread)

CloseSpec == CloseInit /\ [][CloseNext]_vars

\* decodePacket on Movement messages whose header declares the bytes that
\* follow it, whether they are 8 or not: the 8 bytes of a Movement cut
\* short anywhere, or followed by up to two more bytes.
MovementBodies ==
    {CutShort(ToBytes(player, 4) \o <<direction, 0, 0, 0>>, cut) :
        player \in CodecIds, direction \in 0..4, cut \in 0..8}
    \cup {ToBytes(player, 4) \o <<direction, 0, 0, 0>> \o extra :
            player \in CodecIds, direction \in 0..4, extra \in SeqsUpTo({0, 255}, 2)}

MovementMessageInit ==
    /\ ServerIdle
    /\ \E payload \in MovementBodies :
          call = [fn |-> "decodePacket", done |-> FALSE,
                  header |-> PacketHeader(protocolVersion, TypeTag.Movement, Len(payload)),
                  payload |-> payload]

MovementMessageNext == CallDecodePacket

MovementMessageSpec == MovementMessageInit /\ [][MovementMessageNext]_vars

\* ---------------------------------------------- the server's two mutexes
\* The threads of the server at the granularity of their lock and socket
\* operations, with playersMutex taken and released in steps of their own.
\* `playersMutex` and `sendLocks` hold the holder of each mutex, `registry`
\* the sessions that have an entry in players, `accepted` the connections
\* accepted so far, and for each thread `at` is its position, `cur` the
\* session it works on, `todo` the rest of broadcastState's `recipients`,
\* `back` where its broadcastState returns to and `rmback` where its
\* removePlayer returns to.
LockInit ==
    /\ ServerIdle
    /\ call = [fn |-> "locks", playersMutex |-> NoThread,
               sendLocks |-> [s \in 1..MaxConns |-> NoThread],
               registry |-> {}, accepted |-> 0,
               at |-> [t \in Threads |-> IF t = AcceptThread THEN "accept" ELSE "unborn"],
               cur |-> [t \in Threads |-> NoSession],
               todo |-> [t \in Threads |-> <<>>],
               back |-> [t \in Threads |-> "none"],
               rmback |-> [t \in Threads |-> "none"]]

\* std::scoped_lock guard{playersMutex}: the label a thread waits at and
\* the one it is at once it holds the mutex.
UnderPlayersMutex ==
    [emplace_lock |-> "emplace", init_gather_lock |-> "init_gather",
     gather_lock |-> "gather", sessions_lock |-> "sessions",
     remove_lock |-> "remove", move_lock |-> "move"]

\* Session::send's std::scoped_lock guard{sendMutex}, likewise.
UnderSendMutex == [init_send_lock |-> "init_sendAll", send_lock |-> "sendAll"]

LockAt(t, label) == call.fn = "locks" /\ call.at[t] = label

Step(t, label) == [call.at EXCEPT ![t] = label]

\* run(): listener.accept() returns; registerPlayer makes the session.
LockAccept ==
    /\ LockAt(AcceptThread, "accept")
    /\ call.accepted < MaxConns
    /\ call' = [accepted |-> call.accepted + 1,
                cur |-> [call.cur EXCEPT ![AcceptThread] = call.accepted + 1],
                at |-> Step(AcceptThread, "emplace_lock")] @@ call
    /\ UNCHANGED serverVars

LockPlayersMutex(t) ==
    /\ call.fn = "locks"
    /\ call.at[t] \in DOMAIN UnderPlayersMutex
    /\ call.playersMutex = NoThread
    /\ call' = [playersMutex |-> t, at |-> Step(t, UnderPlayersMutex[call.at[t]])] @@ call
    /\ UNCHANGED serverVars

\* registerPlayer: players.emplace under the guard, which ends with the block.
LockEmplace(t) ==
    /\ LockAt(t, "emplace")
    /\ call' = [registry |-> call.registry \cup {call.cur[t]}, playersMutex |-> NoThread,
                at |-> Step(t, "init_gather_lock")] @@ call
    /\ UNCHANGED serverVars

\* gatherSnapshot's scan; the guard ends when the function returns.
LockGather(t) ==
    /\ \E label \in {"init_gather", "gather"} :
          /\ LockAt(t, label)
          /\ call' = [playersMutex |-> NoThread,
                      at |-> Step(t, IF label = "gather" THEN "sessions_lock"
                                     ELSE "init_send_lock")] @@ call
    /\ UNCHANGED serverVars

\* Mutant: snapshotSessions returns with the guard still held.
AfterSessionsScanHeld(t) == t

\* snapshotSessions: the guard ends when the function returns.
AfterSessionsScan(t) == NoThread

LockSessions(t) ==
    /\ LockAt(t, "sessions")
    /\ \E order \in Orders(call.registry) :
          call' = [playersMutex |-> AfterSessionsScan(t),
                   todo |-> [call.todo EXCEPT ![t] = order],
                   at |-> Step(t, "loop")] @@ call
    /\ UNCHANGED serverVars

\* broadcastState's for loop: the next recipient, or the return.
LockLoop(t) ==
    /\ LockAt(t, "loop")
    /\ IF call.todo[t] = <<>>
       THEN call' = [at |-> Step(t, call.back[t]),
                     back |-> [call.back EXCEPT ![t] = "none"],
                     cur |-> [call.cur EXCEPT ![t] = IF t = AcceptThread THEN @ ELSE NoSession]]
                    @@ call
       ELSE call' = [cur |-> [call.cur EXCEPT ![t] = Head(call.todo[t])],
                     todo |-> [call.todo EXCEPT ![t] = Tail(@)],
                     at |-> Step(t, "send_lock")] @@ call
    /\ UNCHANGED serverVars

LockSendMutex(t) ==
    /\ call.fn = "locks"
    /\ call.at[t] \in DOMAIN UnderSendMutex
    /\ call.sendLocks[call.cur[t]] = NoThread
    /\ call' = [sendLocks |-> [call.sendLocks EXCEPT ![call.cur[t]] = t],
                at |-> Step(t, UnderSendMutex[call.at[t]])] @@ call
    /\ UNCHANGED serverVars

\* socket.sendAll returns, with or without an error, and the guard ends.
\* After the initial snapshot: broadcastState and the worker, or the
\* session is given up.  In broadcastState: the next recipient, or
\* removePlayer for this one.
LockSendAll(t) ==
    /\ \E label \in {"init_sendAll", "sendAll"}, sent \in BOOLEAN :
          /\ LockAt(t, label)
          /\ call' = [sendLocks |-> [call.sendLocks EXCEPT ![call.cur[t]] = NoThread],
                      at |-> Step(t, CASE label = "init_sendAll" /\ sent -> "gather_lock"
                                       [] label = "init_sendAll" /\ ~sent -> "shutdown"
                                       [] label = "sendAll" /\ sent -> "loop"
                                       [] label = "sendAll" /\ ~sent -> "remove_lock"),
                      back |-> [call.back EXCEPT ![t] =
                                   IF label = "init_sendAll" /\ sent THEN "spawn" ELSE @],
                      rmback |-> [call.rmback EXCEPT ![t] =
                                     IF label = "sendAll" /\ ~sent THEN "loop"
                                     ELSE IF label = "init_sendAll" /\ ~sent THEN "accept"
                                     ELSE @]] @@ call
    /\ UNCHANGED serverVars

\* socket.shutdown() and socket.close(), in registerPlayer's failure path,
\* in handleClient's teardown and in removePlayer.
LockShutdown(t) ==
    /\ \E label \in {"shutdown", "rm_shutdown"} :
          /\ LockAt(t, label)
          /\ call' = [at |-> Step(t, IF label = "shutdown" THEN "close" ELSE "rm_close")]
                     @@ call
    /\ UNCHANGED serverVars

LockClose(t) ==
    /\ \E label \in {"close", "rm_close"} :
          /\ LockAt(t, label)
          /\ call' = [at |-> Step(t, IF label = "close" THEN "remove_lock"
                                     ELSE call.rmback[t])] @@ call
    /\ UNCHANGED serverVars

\* Mutant: removePlayer keeps the guard until it returns.
AfterEraseHeld(t) == t

\* removePlayer: the inner block ends after players.erase(entry).
AfterErase(t) == NoThread

\* removePlayer's block: find; return if absent; move the session out, erase.
LockRemove(t) ==
    /\ LockAt(t, "remove")
    /\ IF call.cur[t] \in call.registry
       THEN call' = [registry |-> call.registry \ {call.cur[t]},
                     playersMutex |-> AfterErase(t),
                     at |-> Step(t, "rm_shutdown")] @@ call
       ELSE call' = [playersMutex |-> NoThread, at |-> Step(t, call.rmback[t])] @@ call
    /\ UNCHANGED serverVars

\* registerPlayer's last statement: the worker starts in handleClient.
LockSpawn ==
    /\ LockAt(AcceptThread, "spawn")
    /\ call' = [at |-> [call.at EXCEPT ![AcceptThread] = "accept",
                                       ![call.accepted] = "recv"]] @@ call
    /\ UNCHANGED serverVars

\* handleClient: receiveExact returns.  A Movement of the session's own id
\* goes to handleMovement's block; a failure leaves the loop.
LockReceive(t) ==
    /\ LockAt(t, "recv")
    /\ \E next \in {"move_lock", "shutdown"} :
          call' = [at |-> Step(t, next),
                   cur |-> [call.cur EXCEPT ![t] = t],
                   rmback |-> [call.rmback EXCEPT ![t] =
                                  IF next = "shutdown" THEN "gather_lock" ELSE @],
                   back |-> [call.back EXCEPT ![t] =
                                IF next = "shutdown" THEN "exit" ELSE @]] @@ call
    /\ UNCHANGED serverVars

\* handleMovement's block: find, applyMovement, updated.
LockMove(t) ==
    /\ LockAt(t, "move")
    /\ \E updated \in BOOLEAN :
          call' = [playersMutex |-> NoThread,
                   at |-> Step(t, IF updated /\ t \in call.registry
                                  THEN "gather_lock" ELSE "recv"),
                   back |-> [call.back EXCEPT ![t] =
                                IF updated /\ t \in call.registry THEN "recv" ELSE @]]
                  @@ call
    /\ UNCHANGED serverVars

LockNext ==
    \/ LockAccept
    \/ LockSpawn
    \/ \E t \in Threads :
          \/ LockPlayersMutex(t)
          \/ LockEmplace(t)
          \/ LockGather(t)
          \/ LockSessions(t)
          \/ LockLoop(t)
          \/ LockSendMutex(t)
          \/ LockSendAll(t)
          \/ LockShutdown(t)
          \/ LockClose(t)
          \/ LockRemove(t)
          \/ LockReceive(t)
          \/ LockMove(t)

LockSpec == LockInit /\ [][LockNext]_vars

\* ------------------------------- one socket: a sender, a receiver, closers
\* One session's TcpSocket used by three threads, statement by statement:
\* a thread in broadcastState that holds the session's sendMutex and is in
\* TcpSocket::send ("sender"), the session's worker in TcpSocket::receive
\* and, once that has failed, in handleClient's teardown ("worker"), and a
\* thread whose earlier send to the session failed and which is in
\* removePlayer ("remover").  shutdown() and close() take no mutex.
\* `handle` is m_handle, `descriptor` whose the descriptor number is (this
\* connection's, nobody's, or a connection's accepted since), `entry`
\* whether players holds the id, `at` each thread's position and `issued`
\* what the thread's last ::send or ::recv was given: "ours", a number that
\* is "free" or "theirs", or the "invalid" handle.
IoThreads == {"sender", "worker", "remover"}

IoInit ==
    /\ ServerIdle
    /\ call = [fn |-> "io", handle |-> "open", descriptor |-> "ours", entry |-> TRUE,
               at |-> [sender |-> "send_isOpen", worker |-> "recv_isOpen",
                       remover |-> "sent"],
               issued |-> [sender |-> "none", worker |-> "none"]]

IoAt(thread, label) == call.fn = "io" /\ call.at[thread] = label

IoMove(thread, label) == [call.at EXCEPT ![thread] = label]

\* What a system call is given: m_handle as read at the call.
NativeArgument == IF call.handle = "invalid" THEN "invalid" ELSE call.descriptor

\* TcpSocket::send: if (!isOpen()) return InvalidState.
SenderTestsOpen ==
    /\ IoAt("sender", "send_isOpen")
    /\ call' = [at |-> IoMove("sender", IF call.handle = "open"
                                         THEN "send_syscall" ELSE "returned")] @@ call
    /\ UNCHANGED serverVars

\* TcpSocket::send: ::send(m_handle, ...); sendAll calls send again when
\* only a part was written, and returns otherwise.
SenderCallsSend ==
    /\ IoAt("sender", "send_syscall")
    /\ \E next \in {"send_isOpen", "returned"} :
          /\ next = "send_isOpen" => NativeArgument \in {"ours", "theirs"}
          /\ call' = [at |-> IoMove("sender", next),
                      issued |-> [call.issued EXCEPT !["sender"] = NativeArgument]] @@ call
    /\ UNCHANGED serverVars

\* TcpSocket::receive: if (!isOpen()) return InvalidState, before the loop
\* and in it; handleClient breaks out of its loop on the error.
WorkerTestsOpen ==
    /\ IoAt("worker", "recv_isOpen")
    /\ call' = [at |-> IoMove("worker", IF call.handle = "open"
                                         THEN "recv_syscall" ELSE "td_shutdown")] @@ call
    /\ UNCHANGED serverVars

\* TcpSocket::receive: ::recv(m_handle, ...), which blocks on a connection
\* and fails at once on a number that is no descriptor.
WorkerCallsRecv ==
    /\ IoAt("worker", "recv_syscall")
    /\ call' = [at |-> IoMove("worker", IF NativeArgument \in {"ours", "theirs"}
                                         THEN "recv_blocked" ELSE "td_shutdown"),
                issued |-> [call.issued EXCEPT !["worker"] = NativeArgument]] @@ call
    /\ UNCHANGED serverVars

\* ::recv returns: bytes (receiveExact calls receive again), or 0 or an
\* error (handleClient leaves its loop).
WorkerRecvReturns ==
    /\ IoAt("worker", "recv_blocked")
    /\ \E next \in {"recv_isOpen", "td_shutdown"} :
          call' = [at |-> IoMove("worker", next)] @@ call
    /\ UNCHANGED serverVars

\* broadcastState: the remover's session->send has failed,
\* removePlayer(session->playerId).
RemoverSendFailed ==
    /\ IoAt("remover", "sent")
    /\ call' = [at |-> IoMove("remover", "removePlayer")] @@ call
    /\ UNCHANGED serverVars

\* removePlayer under playersMutex: find, move the session out, erase.
IoRemoves(thread) ==
    /\ IoAt(thread, "removePlayer")
    /\ call' = [entry |-> FALSE,
                at |-> IoMove(thread, IF call.entry THEN "rm_shutdown" ELSE "returned")]
               @@ call
    /\ UNCHANGED serverVars

\* socket.shutdown(): ::shutdown on the handle if isOpen().
IoShutsDown(thread) ==
    /\ \E label \in {"td_shutdown", "rm_shutdown"} :
          /\ IoAt(thread, label)
          /\ call' = [at |-> IoMove(thread, IF label = "td_shutdown"
                                             THEN "td_isOpen" ELSE "rm_isOpen")] @@ call
    /\ UNCHANGED serverVars

\* close(): if (isOpen()).
IoTestsOpen(thread) ==
    /\ \E label \in {"td_isOpen", "rm_isOpen"} :
          /\ IoAt(thread, label)
          /\ call' = [at |-> IoMove(thread,
                                    IF call.handle = "open"
                                    THEN (IF label = "td_isOpen"
                                          THEN "td_closeHandle" ELSE "rm_closeHandle")
                                    ELSE AfterClose(label))] @@ call
    /\ UNCHANGED serverVars

\* close(): Detail::closeHandle(m_handle), ::close on the descriptor.
IoClosesHandle(thread) ==
    /\ \E label \in {"td_closeHandle", "rm_closeHandle"} :
          /\ IoAt(thread, label)
          /\ call' = [at |-> IoMove(thread, IF label = "td_closeHandle"
                                             THEN "td_assign" ELSE "rm_assign"),
                      descriptor |-> IF call.descriptor = "ours"
                                     THEN "free" ELSE call.descriptor] @@ call
    /\ UNCHANGED serverVars

\* close(): m_handle = Detail::invalidSocketHandle.
IoAssigns(thread) ==
    /\ \E label \in {"td_assign", "rm_assign"} :
          /\ IoAt(thread, label)
          /\ call' = [at |-> IoMove(thread, AfterClose(label)),
                      handle |-> "invalid"] @@ call
    /\ UNCHANGED serverVars

\* run(): accept returns a new connection, whose descriptor is the lowest
\* free number: the one released here.
IoAcceptTakesDescriptor ==
    /\ call.fn = "io"
    /\ call.descriptor = "free"
    /\ call' = [descriptor |-> "theirs"] @@ call
    /\ UNCHANGED serverVars

IoNext ==
    \/ SenderTestsOpen
    \/ SenderCallsSend
    \/ WorkerTestsOpen
    \/ WorkerCallsRecv
    \/ WorkerRecvReturns
    \/ RemoverSendFailed
    \/ IoAcceptTakesDescriptor
    \/ \E thread \in {"worker", "remover"} :
          \/ IoRemoves(thread)
          \/ IoShutsDown(thread)
          \/ IoTestsOpen(thread)
          \/ IoClosesHandle(thread)
          \/ IoAssigns(thread)

IoSpec == IoInit /\ [][IoNext]_vars

\* -------------------------------------------------------------- the client
\* The client's two threads: main() with its input loop and what follows
\* it, and the receiver thread in receiverLoop.  `running` and
\* `connectionActive` are the two atomics, `main` and `receiver` the
\* threads' positions, `selfId` whether state.selfId has a value, `chat`
\* and `input` are chatState (active, and whether the input has text),
\* `sending` which send main is in, `inbox` the messages the server has
\* written that the receiver has not read yet, `written` how many the
\* server wrote, `peer` whether the server still has the connection open,
\* `handle` the client's m_handle, and `why` records what ended the input
\* loop: the q key, a failed send, or the receiver's failure.
MaxInbox == 2

Keys == {"ERR", "q", "Enter", "Escape", "Backspace", "Arrow", "Letter"}

ServerMessages == {"focused", "plain", "bad"}

ClientInit ==
    /\ ServerIdle
    /\ call = [fn |-> "client", running |-> TRUE, connectionActive |-> TRUE,
               main |-> "running", receiver |-> "running",
               selfId |-> FALSE, chat |-> FALSE, input |-> "empty", sending |-> "none",
               inbox |-> <<>>, written |-> 0, peer |-> "open", handle |-> "open",
               why |-> "none"]

InClient == call.fn = "client"

\* The server writes a message: a snapshot with or without a focus, or
\* bytes whose header does not decode.
ServerWrites ==
    /\ InClient
    /\ call.peer = "open"
    /\ call.written < MaxInbox
    /\ \E message \in ServerMessages :
          call' = [inbox |-> Append(call.inbox, message),
                   written |-> call.written + 1] @@ call
    /\ UNCHANGED serverVars

\* The server closes the connection.
ServerCloses ==
    /\ InClient
    /\ call.peer = "open"
    /\ call' = [peer |-> "closed"] @@ call
    /\ UNCHANGED serverVars

\* main: while (running.load())
MainTestsRunning ==
    /\ InClient
    /\ call.main = "running"
    /\ call' = [main |-> IF call.running THEN "active" ELSE "stop"] @@ call
    /\ UNCHANGED serverVars

\* main: if (!connectionActive.load()) break
MainTestsActive ==
    /\ InClient
    /\ call.main = "active"
    /\ call' = [main |-> IF call.connectionActive THEN "getch" ELSE "stop"] @@ call
    /\ UNCHANGED serverVars

\* handleChatInputKey, up to the call of sendChat.
ChatKey(key) ==
    CASE key = "Escape" -> [chat |-> FALSE, input |-> "empty", main |-> "render"]
      [] key = "Enter" /\ call.input = "empty" -> [chat |-> FALSE, main |-> "render"]
      [] key = "Enter" /\ call.input # "empty" -> [sending |-> "chat", main |-> "send"]
      [] key = "Backspace" -> [main |-> "render"]
      [] key \in {"q", "Letter"} -> [input |-> "text", main |-> "render"]
      [] OTHER -> [main |-> "render"]

\* handleMovementInputKey, up to the call of sendMovement.
MovementKey(key) ==
    CASE key = "q" -> [running |-> FALSE, main |-> "stop",
                       why |-> IF call.why = "none" THEN "quit" ELSE call.why]
      [] key = "Enter" -> [chat |-> TRUE, input |-> "empty", main |-> "render"]
      [] key = "Arrow" -> [sending |-> "movement", main |-> "send"]
      [] OTHER -> [main |-> "render"]

\* main: getch() and handleInputKey.  getch does not wait (nodelay) and
\* gives ERR when no key was pressed; Backspace on a text may empty it.
MainGetch ==
    /\ InClient
    /\ call.main = "getch"
    /\ \E key \in Keys :
          \/ /\ key = "ERR"
             /\ call' = [main |-> "render"] @@ call
          \/ /\ key # "ERR"
             /\ call.chat
             /\ call' = ChatKey(key) @@ call
          \/ /\ key = "Backspace"
             /\ call.chat
             /\ call' = [input |-> "empty", main |-> "render"] @@ call
          \/ /\ key # "ERR"
             /\ ~call.chat
             /\ call' = MovementKey(key) @@ call
    /\ UNCHANGED serverVars

\* sendMovement and sendChat: nothing is sent without a selfId; sendAll
\* under sendMutex can fail once the server has closed; on a failure
\* recordSocketFailure and LoopAction::Stop.
MainSends ==
    /\ InClient
    /\ call.main = "send"
    /\ \/ call' = [main |-> "render", sending |-> "none",
                   chat |-> IF call.sending = "chat" THEN FALSE ELSE call.chat,
                   input |-> IF call.sending = "chat" THEN "empty" ELSE call.input]
                  @@ call
       \/ /\ call.selfId
          /\ call.peer = "closed"
          /\ call' = [main |-> "stop", sending |-> "none", running |-> FALSE,
                      connectionActive |-> FALSE,
                      why |-> IF call.why = "none" THEN "sendFailed" ELSE call.why]
                     @@ call
    /\ UNCHANGED serverVars

\* main: gatherRenderState, drawFrame, sleep_for(refreshDelay).
MainRenders ==
    /\ InClient
    /\ call.main = "render"
    /\ call' = [main |-> "running"] @@ call
    /\ UNCHANGED serverVars

\* main after the loop: running.store(false),
\* connectionActive.store(false), receiver.request_stop().
MainStops ==
    /\ InClient
    /\ call.main = "stop"
    /\ call' = [main |-> "join", running |-> FALSE, connectionActive |-> FALSE,
                why |-> IF call.why = "none" THEN "receiver" ELSE call.why] @@ call
    /\ UNCHANGED serverVars

\* receiver.join() returns when receiverLoop has returned.
Joinable == call.receiver = "returned"

MainJoins ==
    /\ InClient
    /\ call.main = "join"
    /\ Joinable
    /\ call' = [main |-> "shutdown"] @@ call
    /\ UNCHANGED serverVars

\* main: connection->shutdown()
MainShutsDown ==
    /\ InClient
    /\ call.main = "shutdown"
    /\ call' = [main |-> "close"] @@ call
    /\ UNCHANGED serverVars

\* main: connection->close(), and the return from main.
MainCloses ==
    /\ InClient
    /\ call.main = "close"
    /\ call' = [main |-> "exited", handle |-> "invalid"] @@ call
    /\ UNCHANGED serverVars

\* receiverLoop: while (running.load())
ReceiverTestsRunning ==
    /\ InClient
    /\ call.receiver = "running"
    /\ call' = [receiver |-> IF call.running THEN "header" ELSE "returned"] @@ call
    /\ UNCHANGED serverVars

\* The receiver's failure paths: lastError, connectionActive.store(false),
\* running.store(false), return.
ReceiverFails ==
    [receiver |-> "returned", connectionActive |-> FALSE, running |-> FALSE]

\* receiverLoop: receiveExact(packetHeaderSize) and decodeHeader.  The
\* blocking ::recv returns when bytes have arrived or the server has
\* closed.
ReceiverReadsHeader ==
    /\ InClient
    /\ call.receiver = "header"
    /\ \/ /\ call.inbox # <<>>
          /\ Head(call.inbox) # "bad"
          /\ call' = [receiver |-> "payload"] @@ call
       \/ /\ call.inbox # <<>>
          /\ Head(call.inbox) = "bad"
          /\ call' = ReceiverFails @@ [inbox |-> Tail(call.inbox)] @@ call
       \/ /\ call.inbox = <<>>
          /\ call.peer = "closed"
          /\ call' = ReceiverFails @@ call
    /\ UNCHANGED serverVars

\* receiverLoop: receiveExact(payloadSize), decodePacket, std::visit;
\* handleSnapshot stores a focus other than 0 in state.selfId.
ReceiverReadsPayload ==
    /\ InClient
    /\ call.receiver = "payload"
    /\ call' = [receiver |-> "running", inbox |-> Tail(call.inbox),
                selfId |-> call.selfId \/ Head(call.inbox) = "focused"] @@ call
    /\ UNCHANGED serverVars

MainStep ==
    \/ MainTestsRunning
    \/ MainTestsActive
    \/ MainGetch
    \/ MainSends
    \/ MainRenders
    \/ MainStops
    \/ MainJoins
    \/ MainShutsDown
    \/ MainCloses

ReceiverStep ==
    \/ ReceiverTestsRunning
    \/ ReceiverReadsHeader
    \/ ReceiverReadsPayload

ClientNext ==
    \/ ServerWrites
    \/ ServerCloses
    \/ MainStep
    \/ ReceiverStep

ClientSpec == ClientInit /\ [][ClientNext]_vars

\* Both threads of the client keep being scheduled; the server owes
\* nothing.
FairClientSpec == ClientSpec /\ WF_vars(MainStep) /\ WF_vars(ReceiverStep)

\* ------------------------------------------------------- shared by claims
Registered(s) == s \in snapshotSessions

Broadcasting(t) ==
    pc[t] \in {"gather", "sessions", "loop", "send", "bc_remove", "bc_rm_close"}

\* Thread t holds the snapshot of the broadcast it is in.
HoldsSnapshot(t) == Broadcasting(t) /\ pc[t] # "gather"

InGrid(position) ==
    /\ 0 <= position.x /\ position.x < gridWidth
    /\ 0 <= position.y /\ position.y < gridHeight

Entries(packet) == DOMAIN packet.players

\* ----------------------------------------------------------------- claims

\* C1: a registry position changes only in the step in which a receive loop
\* applies a Movement that names the id bound to its own connection; a
\* Movement that names another id changes no registry entry, writes to no
\* connection and goes back to the receive loop without a broadcast.
PositionChanged(id) ==
    /\ id \in DOMAIN players
    /\ id \in DOMAIN players'
    /\ players'[id].position # players[id].position

DispatchesMovement(t) ==
    pc[t] = "dispatch" /\ pc'[t] # "dispatch" /\ msg[t].type = "Movement"

AntiSpoofingStep ==
    /\ \A id \in DOMAIN players :
          PositionChanged(id) =>
              \E t \in Workers :
                  /\ DispatchesMovement(t)
                  /\ msg[t].player = id
                  /\ sessions[t] = id
                  /\ players[id].session = t
    /\ \A t \in Workers :
          (DispatchesMovement(t) /\ msg[t].player # sessions[t]) =>
              /\ players' = players
              /\ wire' = wire
              /\ pc'[t] = "recv"
              /\ caller'[t] = "none"

AntiSpoofing == [][AntiSpoofingStep]_vars

\* A spoofed Movement has been ignored while two participants are registered.
SpoofIgnored ==
    /\ spoofLog > 0
    /\ Cardinality(DOMAIN players) = 2
    /\ \A id \in DOMAIN players : players[id].position = spawnPosition(id)

\* C2: every registry position lies in [0, gridWidth) x [0, gridHeight), for
\* the spawn position of every id the allocator hands out and after any
\* movements.
PositionsInGrid == \A id \in DOMAIN players : InGrid(players[id].position)

\* C3: the ids handed out start at 1, strictly increase in allocation order
\* and are pairwise distinct; every registry entry is keyed by the id of its
\* own session, and no two entries belong to one session.
IdsDistinctIncreasing ==
    /\ sessions # <<>> => sessions[1] = 1
    /\ \A j, k \in DOMAIN sessions : j < k => ULess(sessions[j], sessions[k])
    /\ \A id \in DOMAIN players : sessions[players[id].session] = id
    /\ \A a, b \in DOMAIN players : a # b => players[a].session # players[b].session

AllRegistered ==
    Len(sessions) = MaxConns /\ Cardinality(DOMAIN players) = MaxConns

\* C4: every id handed out is non-zero and differs from every id handed out
\* before it, however many registrations came before.
IdsNonZeroAndFresh ==
    \A k \in DOMAIN sessions :
        /\ sessions[k] # 0
        /\ \A j \in DOMAIN sessions : j < k => sessions[j] # sessions[k]

\* C5, as stated: the snapshot of a broadcast triggered by a movement shows
\* the mover at its new position.
MoveSnapshotShowsMover ==
    \A t \in Workers :
        (caller[t] = "handleMovement" /\ HoldsSnapshot(t)) =>
            /\ sessions[t] \in Entries(snapshot[t])
            /\ snapshot[t].players[sessions[t]] =
                   applyMovement(previous[t], msg[t].direction)

\* C5, amended: a Movement on a participant's own connection that changes its
\* position makes that thread broadcast; the unfocused snapshot is gathered
\* after the mutation and shows the mover at the new position unless its
\* entry has been removed in between; the recipients are the sessions
\* registered when the list is taken, and each of them leaves the list only
\* after a send to it was attempted.
MoveBroadcastState ==
    \A t \in Workers :
        caller[t] = "handleMovement" =>
            LET id == sessions[t]
                after == applyMovement(previous[t], msg[t].direction)
            IN  /\ Broadcasting(t)
                /\ msg[t].type = "Movement" /\ msg[t].player = id
                /\ after # previous[t]
                /\ id \in DOMAIN players => players[id].position = after
                /\ HoldsSnapshot(t) =>
                      /\ snapshot[t].focusPlayer = 0
                      /\ id \in Entries(snapshot[t]) =>
                             snapshot[t].players[id] = after
                      /\ id \in DOMAIN players => id \in Entries(snapshot[t])

MoveBroadcastStep ==
    \A t \in DOMAIN sessions :
        /\ PositionChanged(sessions[t]) =>
               pc'[t] = "gather" /\ caller'[t] = "handleMovement"
        /\ caller[t] = "handleMovement" =>
               /\ (pc[t] = "sessions" /\ pc'[t] # "sessions") =>
                      Range(recipients'[t]) = snapshotSessions
               /\ (pc[t] # "sessions" /\ recipients'[t] # recipients[t]) =>
                      /\ pc[t] \in {"send", "bc_remove", "bc_rm_close"}
                      /\ recipients'[t] = Tail(recipients[t])
               /\ caller'[t] # "handleMovement" => recipients[t] = <<>>

MoveIsBroadcast == []MoveBroadcastState /\ [][MoveBroadcastStep]_vars

\* A movement-triggered broadcast has delivered the new position to every
\* registered participant.
MoveDelivered ==
    \E t \in Workers :
        /\ caller[t] = "handleMovement"
        /\ pc[t] = "loop" /\ recipients[t] = <<>>
        /\ Cardinality(snapshotSessions) = 2
        /\ snapshot[t].players[sessions[t]] # previous[t]
        /\ \A r \in snapshotSessions :
              wire[r] # <<>> /\ wire[r][Len(wire[r])] = snapshot[t]

\* C6: a receive loop that has decoded a Chat packet goes on to send that
\* packet to the registered participants.
ChatIsRebroadcast ==
    [][\A t \in Workers :
          (pc[t] = "dispatch" /\ pc'[t] # "dispatch" /\ msg[t].type = "Chat") =>
              (Broadcasting(t)' /\ snapshot'[t] = msg[t])]_vars

\* C7: once a receive loop has exited, under fair scheduling its thread
\* finishes the teardown, the participant's entry is gone, and every
\* participant still registered has been sent, after the removal, a snapshot
\* that does not list the departed id.
DepartureSeen ==
    \A c \in Workers :
        (pc[c] = "teardown") ~>
            /\ pc[c] = "done"
            /\ ~Registered(c)
            /\ \A r \in DOMAIN sessions : Registered(r) => c \in seenGone[r]

\* A participant has left and another, still registered, was shown it gone.
DepartureDelivered ==
    \E c, r \in DOMAIN sessions :
        /\ c # r
        /\ pc[c] = "done"
        /\ Registered(r)
        /\ c \in seenGone[r]

\* C8: on every connection that was sent its initial snapshot, the first
\* message written is that snapshot: its focus is the connection's own id and
\* it lists that id.
InitialSent(s) ==
    \E i \in DOMAIN wire[s] :
        wire[s][i].focusPlayer = sessions[s] /\ sessions[s] \in Entries(wire[s][i])

FirstMessageIsOwnFocus ==
    \A s \in DOMAIN sessions :
        InitialSent(s) =>
            /\ wire[s][1].focusPlayer = sessions[s]
            /\ sessions[s] \in Entries(wire[s][1])
            /\ s = 1 => wire[s][1].players = (1 :> Position(0, 0))

\* C9, as stated: the snapshot registerPlayer broadcasts after a successful
\* initial send lists the newcomer.
JoinSnapshotShowsNewcomer ==
    (caller[AcceptThread] = "registerPlayer" /\ HoldsSnapshot(AcceptThread)) =>
        sessions[NewSession] \in Entries(snapshot[AcceptThread])

\* C9, amended: after a successful initial send registerPlayer broadcasts an
\* unfocused snapshot gathered after the registration, which lists the
\* newcomer unless the newcomer's entry has been removed in between; the
\* newcomer's receive loop is not started before the broadcast has returned,
\* and when it has returned with the newcomer still registered every
\* registered participant has been sent an unfocused snapshot listing the
\* newcomer (with two participants both hold a 2-entry snapshot).
ShowsNewcomer(packet) ==
    packet.focusPlayer = 0 /\ sessions[NewSession] \in Entries(packet)

JoinBroadcast ==
    /\ pc[AcceptThread] # "accept" => pc[NewSession] = "unborn"
    /\ (caller[AcceptThread] = "registerPlayer" /\ HoldsSnapshot(AcceptThread)) =>
          /\ snapshot[AcceptThread].focusPlayer = 0
          /\ Registered(NewSession) => ShowsNewcomer(snapshot[AcceptThread])
    /\ (pc[AcceptThread] = "spawn" /\ Registered(NewSession)) =>
          /\ \A r \in snapshotSessions \ {NewSession} :
                \E i \in DOMAIN wire[r] : ShowsNewcomer(wire[r][i])
          /\ snapshotSessions = DOMAIN sessions =>
                \A r \in DOMAIN sessions :
                    \E i \in DOMAIN wire[r] : Entries(wire[r][i]) = Range(sessions)

\* The second participant has joined and both hold a 2-entry snapshot.
JoinDelivered ==
    /\ pc[AcceptThread] = "spawn"
    /\ Len(sessions) = 2
    /\ snapshotSessions = {1, 2}
    /\ \A r \in {1, 2} : \E i \in DOMAIN wire[r] : Cardinality(Entries(wire[r][i])) = 2

\* C10: a session whose initial send failed is never given a receive loop,
\* is closed and unregistered once registerPlayer has returned, and no
\* snapshot listing its id is written to any other connection.
InitialSendFailed(s) ==
    /\ s \in DOMAIN sessions
    /\ pc[s] = "unborn"
    /\ s = NewSession =>
           pc[AcceptThread] \in {"init_close", "init_remove", "init_rm_close", "accept"}

FailedJoinIsInvisible ==
    \A s \in DOMAIN sessions :
        InitialSendFailed(s) =>
            /\ (s # NewSession \/ pc[AcceptThread] = "accept") =>
                   ~socketOpen[s] /\ ~Registered(s)
            /\ \A r \in DOMAIN sessions \ {s} :
                  \A i \in DOMAIN wire[r] : sessions[s] \notin Entries(wire[r][i])

\* C11: within one broadcastState call the encoded snapshot stays the same
\* from the moment it is gathered; a recipient leaves the list only by a send
\* to it that succeeded, or by a send to it that failed followed by
\* removePlayer(recipient), and the list then goes on with the recipients
\* that follow; removePlayer after a failed send erases the entry of that
\* recipient and no other; the call returns only when the list is empty.
BroadcastStepsOn(t) ==
    /\ (HoldsSnapshot(t) /\ recipients'[t] # recipients[t] /\ pc[t] # "sessions") =>
          /\ recipients[t] # <<>>
          /\ recipients'[t] = Tail(recipients[t])
          /\ \/ pc[t] = "send" /\ wire'[Head(recipients[t])] =
                                      Append(wire[Head(recipients[t])], snapshot[t])
             \/ pc[t] \in {"bc_remove", "bc_rm_close"}
          /\ pc'[t] = "loop"
    /\ (HoldsSnapshot(t) /\ HoldsSnapshot(t)') => snapshot'[t] = snapshot[t]
    /\ (pc[t] = "send" /\ pc'[t] # "send" /\ wire' = wire) => pc'[t] = "bc_remove"
    /\ (pc[t] = "bc_remove" /\ pc'[t] # "bc_remove") =>
          LET r == Head(recipients[t])
          IN  /\ DOMAIN players' = DOMAIN players \ {sessions[r]}
              /\ \A id \in DOMAIN players' : players'[id] = players[id]
              /\ \A id \in DOMAIN players \ DOMAIN players' : players[id].session = r
    /\ (Broadcasting(t) /\ ~Broadcasting(t)') => recipients[t] = <<>>

InTeardown(c) ==
    \/ pc[c] = "recv" /\ pc'[c] = "teardown"
    \/ pc[c] \in {"teardown", "td_remove", "td_rm_close"}
    \/ caller[c] = "handleClient" /\ Broadcasting(c)

TeardownStepIsLocal(c) ==
    (InTeardown(c) /\ pc'[c] # pc[c]) =>
        /\ \A t \in Threads \ {c} : pc'[t] = pc[t]
        /\ \A r \in DOMAIN sessions \ {c} :
              /\ socketOpen'[r] # socketOpen[r] =>
                     pc[c] = "bc_rm_close" /\ removed[c] = r
              /\ Registered(r) =>
                     IF Registered(r)'
                     THEN players'[sessions[r]] = players[sessions[r]]
                     ELSE pc[c] = "bc_remove" /\ Head(recipients[c]) = r

AcceptLoopReturns == (pc[AcceptThread] # "accept") ~> (pc[AcceptThread] = "accept")

\* C14: a Movement dispatched for a connection whose registry entry is gone
\* leaves the registry as it is, writes to no connection, triggers no
\* broadcast and goes back to the receive loop; a key enters the registry only
\* in the step that registers the connection accepted in that step, so a
\* session whose entry has been removed is never registered again.
LateMovementStep(t) ==
    (DispatchesMovement(t) /\ msg[t].player = sessions[t]
                           /\ sessions[t] \notin DOMAIN players) =>
        /\ players' = players
        /\ wire' = wire
        /\ pc'[t] = "recv"
        /\ caller'[t] = "none"

NoResurrectionStep ==
    /\ \A t \in Workers : LateMovementStep(t)
    /\ \A id \in DOMAIN players' \ DOMAIN players :
          /\ pc[AcceptThread] = "accept" /\ pc'[AcceptThread] = "init_gather"
          /\ Len(sessions') = Len(sessions) + 1
          /\ sessions'[Len(sessions')] = id
          /\ \A s \in DOMAIN sessions : sessions[s] # id
    /\ \A s \in Gone : s \in Gone' /\ sessions[s] \notin DOMAIN players'

RemovedStaysRemoved == [][NoResurrectionStep]_vars

\* A receive loop has handled a Movement for its own id after its entry had
\* been removed by another thread; it is back in its loop, still removed,
\* and the other participant is registered.
LateMovementIgnored ==
    \E t, r \in DOMAIN sessions :
        /\ t # r
        /\ handled[t] = "absent"
        /\ pc[t] = "recv"
        /\ ~Registered(t)
        /\ Registered(r)

\* C15: for every in-grid position and every direction, the movement yields
\* the position plus the direction's unit delta, each axis clamped on its own
\* into [0, 40) and [0, 20) and the other axis untouched; `updated` is true
\* exactly when the result differs from the position, and the broadcast is
\* called exactly then; at an edge, outwards, the position stays, `updated`
\* is false and nothing is broadcast ((0,0) + Left stays (0,0)).
Min(a, b) == IF a < b THEN a ELSE b
Max(a, b) == IF a > b THEN a ELSE b

Delta(direction) ==
    CASE direction = "Up" -> Position(0, -1)
      [] direction = "Down" -> Position(0, 1)
      [] direction = "Left" -> Position(-1, 0)
      [] direction = "Right" -> Position(1, 0)

MovementIsClampedDelta ==
    (call.fn = "applyMovement" /\ call.done) =>
        LET p == call.position
            d == Delta(call.direction)
            outwards == \/ call.direction = "Up" /\ p.y = 0
                        \/ call.direction = "Down" /\ p.y = gridHeight - 1
                        \/ call.direction = "Left" /\ p.x = 0
                        \/ call.direction = "Right" /\ p.x = gridWidth - 1
        IN  /\ call.result.x = Max(0, Min(gridWidth - 1, p.x + d.x))
            /\ call.result.y = Max(0, Min(gridHeight - 1, p.y + d.y))
            /\ d.x = 0 => call.result.x = p.x
            /\ d.y = 0 => call.result.y = p.y
            /\ InGrid(call.result)
            /\ call.updated = (call.result # p)
            /\ call.broadcast = call.updated
            /\ outwards <=> ~call.updated
            /\ ~outwards => call.result = Position(p.x + d.x, p.y + d.y)

\* (0,0) + Left has been computed: the position stays and nothing is
\* broadcast.
LeftAtOriginStays ==
    /\ call.fn = "applyMovement" /\ call.done
    /\ call.position = Position(0, 0) /\ call.direction = "Left"
    /\ call.result = Position(0, 0)
    /\ ~call.updated /\ ~call.broadcast

\* C16: the spawn position of id n is ((n-1) mod 40, ((n-1) div 40) mod 20),
\* n - 1 being taken in the id's unsigned 32-bit arithmetic: id 1 spawns at
\* (0,0), id 2 at (1,0), and each of the first 40 * 20 ids is alone at its
\* position (the position gives the id back).
\* u mod m and u div m of a std::uint32_t u, on bit patterns.
UMod(u, m) ==
    IF u >= 0 THEN u % m
    ELSE ((u % m) + ((2 * (MaxInt32 % m) + 2) % m)) % m

UDiv(u, m) ==
    IF u >= 0 THEN u \div m
    ELSE (u \div m) + 2 * (MaxInt32 \div m) + ((2 * (MaxInt32 % m) + 2) \div m)
         + (((u % m) + ((2 * (MaxInt32 % m) + 2) % m)) \div m)

SpawnIsRowMajor ==
    (call.fn = "spawnPosition" /\ call.done) =>
        LET n == call.playerIdentifier
            index == Dec32(n)
        IN  /\ call.result = Position(UMod(index, gridWidth),
                                      UMod(UDiv(index, gridWidth), gridHeight))
            /\ n = 1 => call.result = Position(0, 0)
            /\ n = 2 => call.result = Position(1, 0)
            /\ (1 <= n /\ n <= gridWidth * gridHeight) =>
                   call.result.y * gridWidth + call.result.x = n - 1

\* C17: a StateSnapshot decoded from a client is ignored: the step that
\* handles it changes no registry entry, writes to no connection, closes no
\* socket, starts no broadcast, and the connection goes on receiving.
ClientSnapshotStep(t) ==
    (pc[t] = "dispatch" /\ pc'[t] # "dispatch" /\ msg[t].type = "StateSnapshot") =>
        /\ players' = players
        /\ wire' = wire
        /\ socketOpen' = socketOpen
        /\ nextId' = nextId
        /\ pc'[t] = "recv"
        /\ caller'[t] = "none"

ClientSnapshotIgnored == [][\A t \in Workers : ClientSnapshotStep(t)]_vars

\* A client's StateSnapshot has been handled with two participants
\* registered: both are where they spawned and the sender is receiving.
ClientSnapshotHandled ==
    \E t \in DOMAIN sessions :
        /\ handled[t] = "snapshot"
        /\ pc[t] = "recv"
        /\ socketOpen[t]
        /\ Cardinality(DOMAIN players) = 2
        /\ \A id \in DOMAIN players : players[id].position = spawnPosition(id)

\* C18: for every Movement, StateSnapshot and Chat value, encode gives bytes
\* whose first 8 decode to a header that announces exactly the bytes that
\* follow, and decodePacket of that header and those bytes succeeds and
\* gives back the value, of the same variant.
RoundTrip ==
    /\ (call.fn = "decodeHeader" /\ call.done) =>
          /\ call.result.ok
          /\ call.result.value.payloadSize = Len(call.bytes) - 8
    /\ (call.fn = "decodePacket" /\ call.done) =>
          /\ Len(call.payload) = Len(call.bytes) - 8
          /\ call.result.ok
          /\ call.result.value.type = call.packet.type
          /\ call.result.value = call.packet

\* A snapshot of two entries with ids and coordinates of more than one byte
\* and a negative coordinate has come back from the bytes.
SnapshotCameBack ==
    /\ call.fn = "decodePacket" /\ call.done
    /\ call.packet.type = "StateSnapshot"
    /\ Len(call.packet.players) = 2
    /\ call.packet.players[1] = [player |-> 258, position |-> [x |-> -1, y |-> 300]]
    /\ call.packet.players[2].player = -1
    /\ call.result.ok /\ call.result.value = call.packet

\* C19: of an 8-byte buffer whose version field is 1 and whose 16-bit type
\* field is none of 1, 2, 3, decodeHeader returns UnknownType.
VersionField(buffer) == buffer[1] * 256 + buffer[2]
TypeField(buffer) == buffer[3] * 256 + buffer[4]

UnknownTagRejected ==
    (call.fn = "decodeHeader" /\ call.done /\ Len(call.buffer) = 8
        /\ VersionField(call.buffer) = 1 /\ TypeField(call.buffer) \notin {1, 2, 3}) =>
        call.result = [ok |-> FALSE, error |-> "UnknownType"]

\* C20: of a buffer of at least 8 bytes whose version field is not 1,
\* decodeHeader returns VersionMismatch, whatever the type and payload size
\* fields hold.
VersionCheckedFirst ==
    (call.fn = "decodeHeader" /\ call.done /\ Len(call.buffer) >= 8
        /\ VersionField(call.buffer) # 1) =>
        call.result = [ok |-> FALSE, error |-> "VersionMismatch"]

\* A buffer with version 2 and the unknown type 4 has been refused for its
\* version.
BadVersionBadType ==
    /\ call.fn = "decodeHeader" /\ call.done
    /\ VersionField(call.buffer) = 2 /\ TypeField(call.buffer) = 4
    /\ call.result = [ok |-> FALSE, error |-> "VersionMismatch"]

\* C21: of every buffer of 0 to 7 bytes, whatever it holds, decodeHeader
\* returns Truncated.
ShortHeaderTruncated ==
    (call.fn = "decodeHeader" /\ call.done /\ Len(call.buffer) <= 7) =>
        call.result = [ok |-> FALSE, error |-> "Truncated"]

\* The first 7 bytes of a well-formed Movement header have been refused.
SevenBytesRefused ==
    /\ call.fn = "decodeHeader" /\ call.done
    /\ call.buffer = <<0, 1, 0, 1, 0, 0, 0>>
    /\ call.result = [ok |-> FALSE, error |-> "Truncated"]

\* C22: of an 8-byte Movement payload whose direction byte is 4 or more,
\* decodeMovement returns InvalidPayload whatever the id and the reserved
\* bytes are; the direction bytes 0, 1, 2, 3 decode to Up, Down, Left, Right.
DirectionByteChecked ==
    (call.fn = "decodeMovement" /\ call.done /\ Len(call.payload) = 8) =>
        LET direction == call.payload[5]
        IN  IF direction >= 4
            THEN call.result = [ok |-> FALSE, error |-> "InvalidPayload"]
            ELSE /\ call.result.ok
                 /\ call.result.value.type = "Movement"
                 /\ call.result.value.direction =
                        <<"Up", "Down", "Left", "Right">>[direction + 1]

\* Direction byte 4 under the largest id and reserved bytes of 255 has been
\* refused.
DirectionFourRefused ==
    /\ call.fn = "decodeMovement" /\ call.done
    /\ call.payload = <<255, 255, 255, 255, 4, 255, 255, 255>>
    /\ call.result = [ok |-> FALSE, error |-> "InvalidPayload"]

\* C23: a StateSnapshot payload that holds a focus id, a count and count
\* complete 12-byte entries followed by one or more extra bytes decodes to
\* SizeMismatch; one that holds fewer than count complete entries decodes to
\* Truncated.
SnapshotSizeChecked ==
    (call.fn = "decodeStateSnapshot" /\ call.done /\ Len(call.payload) >= 8) =>
        LET count == FromBytes(SubSeq(call.payload, 5, 8))
            held == Len(call.payload) - 8
        IN  IF ULess(held \div sizeofPlayerState, count)
            THEN call.result = [ok |-> FALSE, error |-> "Truncated"]
            ELSE held > sizeofPlayerState * count =>
                    call.result = [ok |-> FALSE, error |-> "SizeMismatch"]

\* C24: the output of encode is an 8-byte header followed by the payload;
\* the header's version is 1, its type tag is 1 for Movement, 2 for
\* StateSnapshot and 3 for Chat, and its big-endian length field is the
\* number of bytes after the header: 8 for Movement, 8 + 12 * count for
\* StateSnapshot, 4 + the text's length for Chat.
EncodedLayout ==
    (call.fn = "encode" /\ call.done) =>
        LET bytes == call.bytes
            packet == call.packet
            field == bytes[5] * 16777216 + bytes[6] * 65536 + bytes[7] * 256 + bytes[8]
        IN  /\ Len(bytes) >= 8
            /\ <<bytes[1], bytes[2]>> = <<0, 1>>
            /\ <<bytes[3], bytes[4]>> =
                  <<0, CASE packet.type = "Movement" -> 1
                         [] packet.type = "StateSnapshot" -> 2
                         [] packet.type = "Chat" -> 3>>
            /\ field = Len(bytes) - 8
            /\ field = CASE packet.type = "Movement" -> 8
                          [] packet.type = "StateSnapshot" -> 8 + 12 * Len(packet.players)
                          [] packet.type = "Chat" -> 4 + Len(packet.message)

\* A snapshot of two entries has been encoded into 40 bytes whose length
\* field says 32.
TwoEntriesEncoded ==
    /\ call.fn = "encode" /\ call.done
    /\ call.packet.type = "StateSnapshot"
    /\ Len(call.packet.players) = 2
    /\ Len(call.bytes) = 40
    /\ SubSeq(call.bytes, 5, 8) = <<0, 0, 0, 32>>

\* C25: whatever the low-level sends do, sendAll returns success only when
\* they accepted exactly the bytes of the buffer, in order, without gap or
\* repeat; an interruption never ends the call; a send of zero bytes gives
\* ConnectionClosed, would-block gives WouldBlock, and any other failure
\* gives SendFailed.
SendAllContract ==
    call.fn = "sendAll" =>
        /\ call.accepted = SubSeq(call.buffer, 1, Len(call.accepted))
        /\ call.done =>
              /\ call.result.ok => call.accepted = call.buffer
              /\ call.last # "EINTR"
              /\ call.last = "zero" => call.result = Unexpected("ConnectionClosed")
              /\ call.last = "EWOULDBLOCK" => call.result = Unexpected("WouldBlock")
              /\ call.last \in OtherErrnos => call.result = Unexpected("SendFailed")

\* C26: for any n and whatever the low-level reads do, receiveExact(n)
\* either returns a buffer of exactly n bytes, the bytes the reads delivered
\* in their order, or returns an error: ConnectionClosed after a read of
\* zero bytes, otherwise the error of the read; it never returns fewer than
\* n bytes.
ReceiveExactContract ==
    (call.fn = "receiveExact" /\ call.done) =>
        \/ /\ call.result.ok
           /\ Len(call.result.value) = call.byteCount
           /\ call.result.value = call.delivered
        \/ /\ ~call.result.ok
           /\ "error" \in DOMAIN call.result
           /\ call.last = "zero" => call.result.error = "ConnectionClosed"
           /\ call.last = "EWOULDBLOCK" => call.result.error = "WouldBlock"
           /\ call.last = "ECONNRESET" => call.result.error = "ReceiveFailed"
           /\ call.last # "EINTR"

\* C27: a connection's lifecycle only moves forward through Connecting,
\* Registered, Receiving, Closing, Removed; once its teardown has begun no
\* further message of it is read, decoded or applied to the registry, and
\* Removed is absorbing.
\* Connecting (0): not accepted yet.  Registered (1): registerPlayer is at
\* work on it.  Receiving (2): its worker is in handleClient's loop,
\* handleMovement and its broadcast included.  Closing (3): the worker has
\* left the loop and removePlayer has not returned.  Removed (4):
\* removePlayer has returned in its worker, or registerPlayer gave it up.
Lifecycle(s) ==
    IF s \notin DOMAIN sessions THEN 0
    ELSE IF pc[s] = "unborn"
         THEN IF s = NewSession /\ pc[AcceptThread] # "accept" THEN 1 ELSE 4
    ELSE IF pc[s] \in {"recv", "dispatch"} \/ (Broadcasting(s) /\ caller[s] = "handleMovement")
         THEN 2
    ELSE IF pc[s] \in {"teardown", "td_remove", "td_rm_close"} THEN 3
    ELSE 4

InsideSendAll(t, s) ==
    \/ t = AcceptThread /\ pc[t] = "init_send" /\ s = NewSession
    \/ pc[t] = "send" /\ recipients[t] # <<>> /\ Head(recipients[t]) = s

ReleasedAndRemovedOnce ==
    call.fn = "close" =>
        /\ call.releases <= 1
        /\ call.erased <= 1
        /\ (call.at.worker = "returned" /\ call.at.other = "returned") =>
              (call.releases = 1 /\ call.erased = 1)

\* C30: every snapshot the server builds is the registry's map from ids to
\* positions at one instant, the step that builds it: it has each id
\* registered then exactly once, with its position then; and the snapshot a
\* thread holds stays as built while movements, registrations and removals
\* go on around it.
HoldsBuilt(t) == HoldsSnapshot(t) \/ pc[t] \in {"init_lock", "init_send"}

SnapshotIsOneInstant ==
    [][\A t \in Threads :
          /\ (~HoldsBuilt(t) /\ HoldsBuilt(t)') =>
                /\ players' = players
                /\ DOMAIN snapshot'[t].players = DOMAIN players
                /\ \A id \in DOMAIN players :
                      snapshot'[t].players[id] = players[id].position
          /\ (HoldsBuilt(t) /\ HoldsBuilt(t)') => snapshot'[t] = snapshot[t]]_vars

\* The accept thread holds the snapshot of a join broadcast, both players
\* in it, while player 1 has moved since: the registry no longer equals it.
SnapshotOutlivedByMovement ==
    /\ HoldsSnapshot(AcceptThread)
    /\ DOMAIN snapshot[AcceptThread].players = DOMAIN players
    /\ Cardinality(DOMAIN players) = 2
    /\ \E id \in DOMAIN players :
          snapshot[AcceptThread].players[id] # players[id].position

\* C31: no thread ever holds playersMutex and a session's sendMutex at the
\* same time, and in no reachable state do threads wait for each other's
\* mutexes in a cycle, whatever broadcasts, registrations and teardowns run
\* side by side.
HoldsPlayersMutex(t) == call.playersMutex = t

HoldsSendMutex(t) == \E s \in DOMAIN call.sendLocks : call.sendLocks[s] = t

\* The thread that holds the mutex t is waiting for, if it waits.
WaitsFor(t) ==
    IF call.at[t] \in DOMAIN UnderPlayersMutex
    THEN {call.playersMutex} \ {NoThread}
    ELSE IF call.at[t] \in DOMAIN UnderSendMutex
    THEN {call.sendLocks[call.cur[t]]} \ {NoThread}
    ELSE {}

WaitsForAll(S) == UNION {WaitsFor(t) : t \in S}

NoLockCycle ==
    call.fn = "locks" =>
        \A t \in Threads :
           /\ ~(HoldsPlayersMutex(t) /\ HoldsSendMutex(t))
           /\ t \notin WaitsFor(t)
           /\ t \notin WaitsForAll(WaitsFor(t))
           /\ t \notin WaitsForAll(WaitsForAll(WaitsFor(t)))

\* Worker 2 is inside sendAll on session 1 under that session's sendMutex
\* while worker 1 holds playersMutex in handleMovement.
BothMutexesHeld ==
    /\ call.fn = "locks"
    /\ call.at[2] = "sendAll" /\ call.cur[2] = 1 /\ call.sendLocks[1] = 2
    /\ call.at[1] = "move" /\ call.playersMutex = 1

\* C32: in every reachable state a thread that is inside sendAll,
\* receiveExact, socket shutdown or socket close does not hold playersMutex.
InTransport(t) ==
    call.at[t] \in {"init_sendAll", "sendAll", "recv", "shutdown", "close",
                    "rm_shutdown", "rm_close"}

NoTransportUnderPlayersMutex ==
    call.fn = "locks" =>
        \A t \in Threads : InTransport(t) => call.playersMutex # t

\* Worker 1 closes session 2's socket in the removePlayer that followed its
\* failed send while worker 2 holds playersMutex in its teardown's
\* removePlayer.
CloseBesideRegistryWork ==
    /\ call.fn = "locks"
    /\ call.at[1] = "rm_close" /\ call.cur[1] = 2
    /\ call.at[2] = "remove" /\ call.playersMutex = 2

\* C33: once a sendAll to a connection has returned an error, no thread
\* ever writes further bytes to that connection.
\* A thread whose sendAll to s has returned an error and that has not yet
\* closed s's socket or found it removed:
SendFailedOn(t, s) ==
    \/ /\ t = AcceptThread
       /\ pc[t] \in {"init_close", "init_remove", "init_rm_close"}
       /\ s = NewSession
    \/ /\ pc[t] \in {"bc_remove", "bc_rm_close"}
       /\ recipients[t] # <<>>
       /\ Head(recipients[t]) = s

FailedSendIsTerminal ==
    [][\A s \in DOMAIN sessions :
          (\E t \in Threads : SendFailedOn(t, s)) => wire'[s] = wire[s]]_vars

\* C34: a Movement payload is accepted only when it is exactly 8 bytes
\* long: a shorter one gives Truncated, and a Movement message whose header
\* declares and carries more than 8 payload bytes is rejected with a decode
\* error.
MovementIsEightBytes ==
    (/\ call.fn = "decodePacket" /\ call.done
     /\ call.header.type = TypeTag.Movement
     /\ call.header.payloadSize = Len(call.payload)) =>
        /\ Len(call.payload) < 8 => call.result = Unexpected("Truncated")
        /\ Len(call.payload) > 8 => ~call.result.ok
        /\ call.result.ok => Len(call.payload) = 8

\* C35: every participant to which a broadcast snapshot is sent is itself
\* listed in that snapshot: the recipients a broadcastState call still has
\* to send to are ids of its snapshot, and every snapshot of focus 0
\* written to a connection lists that connection's id.
RecipientsAreListed ==
    /\ \A t \in Threads :
          pc[t] \in {"loop", "send", "bc_remove", "bc_rm_close"} =>
              \A i \in DOMAIN recipients[t] :
                 sessions[recipients[t][i]] \in Entries(snapshot[t])
    /\ \A s \in DOMAIN sessions :
          \A i \in DOMAIN wire[s] :
             wire[s][i].focusPlayer = 0 => sessions[s] \in Entries(wire[s][i])

\* C36: when no broadcast is in flight any more, every send has succeeded
\* and nobody has left (the accept thread is back in accept, every worker
\* waits in its receive, every accepted session is registered with its
\* socket open), the last snapshot written to each participant equals the
\* registry's ids and positions.
Quiescent ==
    /\ sessions # <<>>
    /\ pc[AcceptThread] = "accept"
    /\ \A s \in DOMAIN sessions :
          pc[s] = "recv" /\ Registered(s) /\ socketOpen[s] /\ sendMutex[s] = NoThread

ConvergedAtQuiescence ==
    Quiescent =>
        \A s \in DOMAIN sessions :
           /\ wire[s] # <<>>
           /\ wire[s][Len(wire[s])].players = gatherSnapshot(0).players

\* C37: a snapshot whose focus is not 0 is written only to the connection
\* bound to that id, no connection is written more than one of them, and the
\* snapshot a broadcastState holds has focus 0.
Focused(s) == {i \in DOMAIN wire[s] : wire[s][i].focusPlayer # 0}

FocusOnlyToOwner ==
    /\ \A s \in DOMAIN sessions :
          /\ \A i \in Focused(s) : wire[s][i].focusPlayer = sessions[s]
          /\ Cardinality(Focused(s)) <= 1
    /\ \A t \in Threads : HoldsSnapshot(t) => snapshot[t].focusPlayer = 0

\* Connection 2 has been written its focused snapshot and a broadcast after
\* it, and connection 1 has been written three snapshots.
FocusedThenBroadcasts ==
    /\ Len(sessions) = 2
    /\ Len(wire[2]) >= 2
    /\ Focused(2) = {1}
    /\ Len(wire[1]) >= 3
    /\ Focused(1) = {1}

\* C38: no ::send and no ::recv is given a handle that has been closed:
\* whatever a sender's or the worker's system call is given is the
\* descriptor of this connection, still open.
NoCallOnClosedHandle ==
    call.fn = "io" =>
        \A thread \in {"sender", "worker"} : call.issued[thread] \in {"none", "ours"}

\* C39: once the q key or a failed send has ended the client's input loop,
\* main joins the receiver thread, closes the connection and returns,
\* whatever the server does or does not do from then on.
ClientShutdownTerminates ==
    (call.fn = "client" /\ call.why \in {"quit", "sendFailed"})
        ~> (call.fn = "client" /\ call.main = "exited")

====
